---------------------------- MODULE Spec2Model ----------------------------
(***************************************************************************)
(* Model of the thumbnail editor's masking subsystem:                      *)
(*   src/components/MaskingCanvas.tsx  (lines 1-385, the canonical         *)
(*       region-based canvas: geometry, merge engine, history, capture,    *)
(*       export, notification and trigger effects)                         *)
(*   src/App.tsx (lines 1204-1820, the App that owns the masking flags,    *)
(*       the region prompts, the triggers and the edit submission)         *)
(*   src/components/EditControls.tsx, src/components/MaskingToolbar.tsx    *)
(*                                                                         *)
(* React is modelled by its contract: a handler's state updates are        *)
(* applied by the render that follows it, effects run after the render     *)
(* whose dependencies changed, and the render and effects of one input     *)
(* event are finished before the next input event is dispatched            *)
(* (Settled).  Coordinates are integers; the merge threshold 2.5 * brush   *)
(* is kept exact by computing in tenths.                                   *)
(***************************************************************************)
EXTENDS Integers, Sequences, FiniteSets, TLC

\* ------------------------------------------------------------------ bounds
MaxCoord   == 1      \* x coordinates are GridStep * (0..MaxCoord)
MaxY       == 0      \* y coordinates are GridStep * (0..MaxY)
MaxPathLen == 2      \* points captured per stroke
MaxHistory == 3      \* snapshots kept by the history
MaxTrigger == 2      \* requests per trigger counter (Spec)
MaxEditTrigger == 1  \* requests per trigger counter (SpecEdit)
MaxIds     == 3      \* image sets / versions created (crypto.randomUUID)
MaxPending == 2      \* image loads outstanding when an input event is handled (SpecLoad)
MaxLoadTrigger == 1  \* requests per trigger counter (SpecLoad)
MaxMergeX  == 2      \* x coordinates of the merge scenarios are GridStep * (0..MaxMergeX)
MaxMergeY  == 1      \* y coordinates of the merge scenarios are GridStep * (0..MaxMergeY)
MaxPromptId == 3     \* region ids of the prompt-binding scenarios are 1..MaxPromptId
MaxMaskX   == 2      \* x coordinates of the mask scenarios are MaskStep * (0..MaxMaskX)
MaxMaskY   == 1      \* y coordinates of the mask scenarios are MaskStep * (0..MaxMaskY)
MaskStep   == 48     \* distance in pixels between the points of the mask scenarios
PixelStep  == 12     \* the mask is sampled at every PixelStep-th pixel of a row and column
MaxKeys    == 3      \* API keys the user can store are 1..MaxKeys
MaxCallers == 2      \* withErrorHandling calls that can be in flight together
TickMs     == 60000  \* milliseconds by which Date.now() advances in one step
MaxTicks   == 2      \* steps of the clock (SpecKeys)
MaxRetryTicks == 1   \* steps of the clock, of 2 * TickMs each (SpecRetry)
MaxDeletes == 1      \* keys deleted by the user (SpecRetry)
MaxCommits == 3      \* strokes committed one after the other (SpecCommit)
MaxSetIds  == 5      \* image sets / versions created (SpecSets)

\* ------------------------------------------------------- program constants
GridStep    == 120
BrushMin    == 5
BrushInit   == 40
BrushMax    == 150
Inf         == 1000000
MERGE_THRESHOLD_MULTIPLIER_TENTHS == 25
FontMin     == 24
FontPercent == 5
EXHAUSTION_PERIOD_MS == 60000

VARIABLES
  \* MaskingCanvas
  history, historyIndex, isDrawing, currentPath,
  seenUndo, seenRedo, seenClear, imageRef, pendingLoads, loadDeps,
  \* App
  imageSets, activeSetId, activeVersionId, nextId,
  isMasking, brushSize, regionPrompts, compositeImage, maskImage,
  canUndo, canRedo, undoTrigger, redoTrigger, clearTrigger,
  prompt, error, isLoading, inflight,
  \* the inputs and results of the checks of single functions and scenarios
  probe

canvasVars == <<history, historyIndex, isDrawing, currentPath,
                seenUndo, seenRedo, seenClear, imageRef, pendingLoads, loadDeps>>
imageVars  == <<imageSets, activeSetId, activeVersionId, nextId>>
maskVars   == <<isMasking, brushSize, regionPrompts, compositeImage, maskImage,
                canUndo, canRedo>>
triggerVars == <<undoTrigger, redoTrigger, clearTrigger>>
editVars   == <<prompt, error, isLoading, inflight>>
progVars == <<canvasVars, imageVars, maskVars, triggerVars, editVars>>
vars == <<progVars, probe>>

\* ----------------------------------------------------------------- helpers
Null    == <<>>
Some(x) == <<x>>
Min(a, b) == IF a <= b THEN a ELSE b
Max(a, b) == IF a >= b THEN a ELSE b

Coords  == {GridStep * i : i \in 0..MaxCoord}
YCoords == {GridStep * i : i \in 0..MaxY}
Points  == [x : Coords, y : YCoords]
BrushSizes == {BrushInit, BrushMax}
Texts   == {"", " ", "a"}
NoError == "none"

\* String.prototype.trim on the modelled texts
Trim(t) == IF t = " " THEN "" ELSE t

\* ---------------------------------------------------------------- geometry
RECURSIVE PathReduce(_, _)
PathReduce(path, acc) ==
  IF path = <<>> THEN acc
  ELSE LET point == Head(path) IN
       PathReduce(Tail(path),
                  [minX |-> Min(acc.minX, point.x),
                   minY |-> Min(acc.minY, point.y),
                   maxX |-> Max(acc.maxX, point.x),
                   maxY |-> Max(acc.maxY, point.y)])

getPathBbox(path) ==
  PathReduce(path, [minX |-> Inf, minY |-> Inf, maxX |-> -Inf, maxY |-> -Inf])

\* faulty variant of mergeBboxes: the box of the new path is not taken in
mergeBboxes_KeepsFirst(b1, b2) == b1

mergeBboxes(b1, b2) ==
  [minX |-> Min(b1.minX, b2.minX),
   minY |-> Min(b1.minY, b2.minY),
   maxX |-> Max(b1.maxX, b2.maxX),
   maxY |-> Max(b1.maxY, b2.maxY)]

\* faulty variant of areBboxesClose: the box is not expanded at its max sides
areBboxesClose_NoMaxExpansion(b1, b2, threshold10) ==
  LET expandedB1 == [minX |-> 10 * b1.minX - threshold10,
                     minY |-> 10 * b1.minY - threshold10,
                     maxX |-> 10 * b1.maxX,
                     maxY |-> 10 * b1.maxY]
  IN  /\ expandedB1.minX <= 10 * b2.maxX
      /\ expandedB1.maxX >= 10 * b2.minX
      /\ expandedB1.minY <= 10 * b2.maxY
      /\ expandedB1.maxY >= 10 * b2.minY

\* threshold10 is the threshold in tenths of a pixel; both sides are scaled by 10
areBboxesClose(b1, b2, threshold10) ==
  LET expandedB1 == [minX |-> 10 * b1.minX - threshold10,
                     minY |-> 10 * b1.minY - threshold10,
                     maxX |-> 10 * b1.maxX + threshold10,
                     maxY |-> 10 * b1.maxY + threshold10]
  IN  /\ expandedB1.minX <= 10 * b2.maxX
      /\ expandedB1.maxX >= 10 * b2.minX
      /\ expandedB1.minY <= 10 * b2.maxY
      /\ expandedB1.maxY >= 10 * b2.minY

MergeThreshold10(brush) == brush * MERGE_THRESHOLD_MULTIPLIER_TENTHS

\* ------------------------------------------------------------ merge engine
RECURSIVE MaxId(_)
MaxId(rs) == IF rs = <<>> THEN 0 ELSE Max(Head(rs).id, MaxId(Tail(rs)))

\* index of the first region close to the new path's box, 0 when none
RECURSIVE FirstClose(_, _, _, _)
FirstClose(rs, box, thr10, i) ==
  IF i > Len(rs) THEN 0
  ELSE IF areBboxesClose(rs[i].bbox, box, thr10) THEN i
  ELSE FirstClose(rs, box, thr10, i + 1)

\* faulty variant of NewRegionId: one more than the id of the first region
NewRegionId_FromFirst(rs) == (IF Len(rs) > 0 THEN rs[1].id ELSE 0) + 1

NewRegionId(rs) == (IF Len(rs) > 0 THEN MaxId(rs) ELSE 0) + 1

\* faulty variant of MergeStroke: computed from the RegionSet of a render
\* before the earlier strokes (a stale closure)
MergeStroke_FromEmpty(rs, newPath, brush) ==
  <<[id |-> 1, paths |-> <<newPath>>, bbox |-> getPathBbox(newPath)]>>

\* faulty variant of MergeStroke: a merge extends the box but drops the path
MergeStroke_MergeDropsPath(rs, newPath, brush) ==
  LET newPathBbox == getPathBbox(newPath)
      k == FirstClose(rs, newPathBbox, MergeThreshold10(brush), 1)
  IN  IF k > 0
      THEN [i \in 1..Len(rs) |->
              IF i = k
              THEN [id    |-> rs[i].id,
                    paths |-> rs[i].paths,
                    bbox  |-> mergeBboxes(rs[i].bbox, newPathBbox)]
              ELSE rs[i]]
      ELSE Append(rs, [id    |-> NewRegionId(rs),
                       paths |-> <<newPath>>,
                       bbox  |-> newPathBbox])

\* faulty variant of MergeStroke: the path is merged into every close region
MergeStroke_MergesAllClose(rs, newPath, brush) ==
  LET newPathBbox == getPathBbox(newPath)
      k == FirstClose(rs, newPathBbox, MergeThreshold10(brush), 1)
  IN  IF k > 0
      THEN [i \in 1..Len(rs) |->
              IF areBboxesClose(rs[i].bbox, newPathBbox, MergeThreshold10(brush))
              THEN [id    |-> rs[i].id,
                    paths |-> Append(rs[i].paths, newPath),
                    bbox  |-> mergeBboxes(rs[i].bbox, newPathBbox)]
              ELSE rs[i]]
      ELSE Append(rs, [id    |-> NewRegionId(rs),
                       paths |-> <<newPath>>,
                       bbox  |-> newPathBbox])

\* stopDrawing's computation of newRegions from regions, the path and the brush
MergeStroke(rs, newPath, brush) ==
  LET newPathBbox == getPathBbox(newPath)
      k == FirstClose(rs, newPathBbox, MergeThreshold10(brush), 1)
  IN  IF k > 0
      THEN [i \in 1..Len(rs) |->
              IF i = k
              THEN [id    |-> rs[i].id,
                    paths |-> Append(rs[i].paths, newPath),
                    bbox  |-> mergeBboxes(rs[i].bbox, newPathBbox)]
              ELSE rs[i]]
      ELSE Append(rs, [id    |-> NewRegionId(rs),
                       paths |-> <<newPath>>,
                       bbox  |-> newPathBbox])

\* ------------------------------------------------------------ canvas state
\* const regions = history[historyIndex] || []
regions ==
  IF historyIndex + 1 \in 1..Len(history) THEN history[historyIndex + 1] ELSE <<>>

RegionIds(rs) == [i \in 1..Len(rs) |-> rs[i].id]

\* faulty variant of updateHistory: the snapshots after the index are kept
updateHistory_NoSlice(newRegions) ==
  LET newHistory == Append(history, newRegions)
  IN  [history |-> newHistory, historyIndex |-> Len(newHistory) - 1]

\* updateHistory: the pair (new history, new index)
updateHistory(newRegions) ==
  LET newHistory == Append(SubSeq(history, 1, historyIndex + 1), newRegions)
  IN  [history |-> newHistory, historyIndex |-> Len(newHistory) - 1]


\* --------------------------------------------------------------- App state
RECURSIVE SetIndex(_, _, _)
SetIndex(sets, id, i) ==
  IF i > Len(sets) THEN 0
  ELSE IF sets[i].id = id THEN i
  ELSE SetIndex(sets, id, i + 1)

\* activeSet?.versions.find(v => v.id === activeVersionId), 0 when undefined
ActiveImageOf(sets, sid, vid) ==
  LET si == SetIndex(sets, sid, 1)
  IN  IF si = 0 THEN 0
      ELSE IF \E j \in 1..Len(sets[si].versions) : sets[si].versions[j] = vid
           THEN vid ELSE 0

activeImage == ActiveImageOf(imageSets, activeSetId, activeVersionId)

\* {activeImage ? (<MaskingCanvas .../> <MaskingToolbar/> <EditControls/>) : <InitialView/>}
Mounted == activeImage # 0

\* --------------------------------------------------------------- rendering
Composite(img, rs, brush) ==
  [kind |-> "composite", image |-> img, regions |-> rs, brush |-> brush]
Mask(img, rs, brush) ==
  [kind |-> "mask", image |-> img, regions |-> rs, brush |-> brush]

\* faulty variant of OutputImages: the export does not look whether the
\* image is there
OutputImages_NoImageCheck(img, rs, brush) ==
  IF Len(rs) = 0 THEN [composite |-> Null, mask |-> Null]
  ELSE [composite |-> Some(Composite(img, rs, brush)),
        mask      |-> Some(Mask(img, rs, brush))]

\* generateOutputImages of a render whose regions and brushSize are rs and
\* brush, called while imageRef.current is img: the (composite, mask) the
\* App holds after the call
OutputImages(img, rs, brush) ==
  IF Len(rs) = 0 THEN [composite |-> Null, mask |-> Null]
  ELSE IF img = 0 THEN [composite |-> compositeImage, mask |-> maskImage]
  ELSE [composite |-> Some(Composite(img, rs, brush)),
        mask      |-> Some(Mask(img, rs, brush))]

\* faulty variant of generateOutputImages: the callback keeps the brush size
\* of the first render
generateOutputImages_FirstBrush == OutputImages(imageRef, regions, BrushInit)

\* generateOutputImages of the current render
generateOutputImages == OutputImages(imageRef, regions, brushSize)

\* ----------------------------------------------------- region-prompt binding
RECURSIVE FindPrompt(_, _, _)
FindPrompt(prev, id, i) ==
  IF i > Len(prev) THEN 0
  ELSE IF prev[i].id = id THEN i
  ELSE FindPrompt(prev, id, i + 1)

\* faulty variant of handleRegionsChange: entries of removed ids are kept
handleRegionsChange_KeepsStale(ids, prev) ==
  prev \o SelectSeq([i \in 1..Len(ids) |-> [id |-> ids[i], prompt |-> ""]],
                    LAMBDA e : FindPrompt(prev, e.id, 1) = 0)

\* faulty variant of handleRegionsChange: the previous text is not carried over
handleRegionsChange_DropsText(ids, prev) ==
  [i \in 1..Len(ids) |-> [id |-> ids[i], prompt |-> ""]]

handleRegionsChange(ids, prev) ==
  [i \in 1..Len(ids) |->
     LET existing == FindPrompt(prev, ids[i], 1)
     IN  IF existing # 0 THEN prev[existing] ELSE [id |-> ids[i], prompt |-> ""]]

handleRegionPromptChange(prev, id, newPrompt) ==
  [i \in 1..Len(prev) |->
     IF prev[i].id = id THEN [id |-> prev[i].id, prompt |-> newPrompt] ELSE prev[i]]

\* faulty variant of validRegionPrompts: the text is not trimmed
validRegionPrompts_NoTrim(prompts) == SelectSeq(prompts, LAMBDA p : p.prompt # "")

\* regionPrompts.filter(p => p.prompt.trim() !== '')
validRegionPrompts(prompts) == SelectSeq(prompts, LAMBDA p : Trim(p.prompt) # "")

\* ------------------------------------------------------------- scheduling
TriggerPending ==
  Mounted /\ (undoTrigger # seenUndo \/ redoTrigger # seenRedo \/ clearTrigger # seenClear)

\* the dependencies of the image load effect: imageSrc, redrawCanvas
\* (isEnabled, regions, brushSize), generateOutputImages (regions, brushSize)
CurrentLoadDeps ==
  Some([image |-> activeImage, isEnabled |-> isMasking,
        regions |-> regions, brush |-> brushSize])

\* the image load effect has to run: at mount and after a render that changed
\* one of its dependencies
LoadDue == Mounted /\ loadDeps # CurrentLoadDeps

\* the Image the load effect creates, with the render its onload closes over
NewLoad == [image |-> activeImage, regions |-> regions, brush |-> brushSize]

\* the scenario lets input events in while image loads are pending
LateLoads == probe.kind = "lateLoads"

LoadPending == pendingLoads # {} /\ ~LateLoads

\* onHistoryChange({ canUndo: historyIndex > 0, canRedo: historyIndex < history.length - 1 })
CanUndoNow == historyIndex > 0

\* faulty variant of CanRedoNow: off by one
CanRedoNow_OffByOne == historyIndex < Len(history)

CanRedoNow == historyIndex < Len(history) - 1

\* what the notification effect hands to the App
Notified ==
  [composite |-> generateOutputImages.composite,
   mask      |-> generateOutputImages.mask,
   canUndo   |-> CanUndoNow,
   canRedo   |-> CanRedoNow,
   prompts   |-> handleRegionsChange(RegionIds(regions), regionPrompts)]

NotifyDue ==
  Mounted /\ Notified # [composite |-> compositeImage, mask |-> maskImage,
                         canUndo |-> canUndo, canRedo |-> canRedo,
                         prompts |-> regionPrompts]

\* the render and the effects of the previous event are finished
Settled == ~TriggerPending /\ ~LoadDue /\ ~LoadPending /\ ~NotifyDue

\* ------------------------------------------------------ mount and unmount
FreshCanvas ==
  /\ history' = <<<<>>>>
  /\ historyIndex' = 0
  /\ isDrawing' = FALSE
  /\ currentPath' = <<>>
  /\ seenUndo' = 0
  /\ seenRedo' = 0
  /\ seenClear' = 0
  /\ imageRef' = 0
  /\ pendingLoads' = {}
  /\ loadDeps' = Null

\* the canvas keeps its state while an image stays active, and is created
\* anew (useState / useRef initial values) when one becomes active
CanvasFollows(imageAfter) ==
  IF activeImage # 0 /\ imageAfter # 0 THEN UNCHANGED canvasVars ELSE FreshCanvas

\* -------------------------------------------------------------------- Init
ProgInit ==
  /\ history = <<<<>>>>
  /\ historyIndex = 0
  /\ isDrawing = FALSE
  /\ currentPath = <<>>
  /\ seenUndo = 0
  /\ seenRedo = 0
  /\ seenClear = 0
  /\ imageRef = 0
  /\ pendingLoads = {}
  /\ loadDeps = Null
  /\ imageSets = <<>>
  /\ activeSetId = 0
  /\ activeVersionId = 0
  /\ nextId = 1
  /\ isMasking = FALSE
  /\ brushSize = BrushInit
  /\ regionPrompts = <<>>
  /\ compositeImage = Null
  /\ maskImage = Null
  /\ canUndo = FALSE
  /\ canRedo = FALSE
  /\ undoTrigger = 0
  /\ redoTrigger = 0
  /\ clearTrigger = 0
  /\ prompt = ""
  /\ error = NoError
  /\ isLoading = FALSE
  /\ inflight = Null

ProbeOff == [kind |-> "off"]

Init == ProgInit /\ probe = ProbeOff

\* ---------------------------------------------------------- stroke capture
\* faulty variant of StartDrawing: every mouse button starts a stroke
StartDrawing_AnyButton(kind, point) ==
  /\ Mounted /\ Settled
  /\ historyIndex + 2 <= MaxHistory
  /\ IF ~isMasking
     THEN UNCHANGED <<isDrawing, currentPath>>
     ELSE /\ isDrawing' = TRUE
          /\ currentPath' = <<point>>
  /\ UNCHANGED <<history, historyIndex, seenUndo, seenRedo, seenClear, imageRef, pendingLoads, loadDeps>>
  /\ UNCHANGED <<imageVars, maskVars, triggerVars, editVars>>

\* startDrawing; kind is "mouse0" (primary button), "mouse2" or "touch"
StartDrawing(kind, point) ==
  /\ Mounted /\ Settled
  /\ historyIndex + 2 <= MaxHistory
  /\ IF ~isMasking \/ kind = "mouse2"
     THEN UNCHANGED <<isDrawing, currentPath>>
     ELSE /\ isDrawing' = TRUE
          /\ currentPath' = <<point>>
  /\ UNCHANGED <<history, historyIndex, seenUndo, seenRedo, seenClear, imageRef, pendingLoads, loadDeps>>
  /\ UNCHANGED <<imageVars, maskVars, triggerVars, editVars>>

\* draw (mousemove / touchmove)
Draw(point) ==
  /\ Mounted /\ Settled
  /\ Len(currentPath) < MaxPathLen
  /\ IF ~isDrawing \/ ~isMasking
     THEN UNCHANGED currentPath
     ELSE currentPath' = Append(currentPath, point)
  /\ UNCHANGED <<history, historyIndex, isDrawing, seenUndo, seenRedo, seenClear, imageRef, pendingLoads, loadDeps>>
  /\ UNCHANGED <<imageVars, maskVars, triggerVars, editVars>>

\* stopDrawing (mouseup, touchend, and mouseleave while drawing)
StopDrawing ==
  /\ Mounted /\ Settled
  /\ (isDrawing /\ Len(currentPath) > 0) => historyIndex + 2 <= MaxHistory
  /\ IF ~isDrawing
     THEN UNCHANGED <<history, historyIndex, isDrawing, currentPath>>
     ELSE /\ isDrawing' = FALSE
          /\ IF Len(currentPath) > 0
             THEN LET newRegions == MergeStroke(regions, currentPath, brushSize)
                      h == updateHistory(newRegions)
                  IN  /\ history' = h.history
                      /\ historyIndex' = h.historyIndex
             ELSE UNCHANGED <<history, historyIndex>>
          /\ currentPath' = <<>>
  /\ UNCHANGED <<seenUndo, seenRedo, seenClear, imageRef, pendingLoads, loadDeps>>
  /\ UNCHANGED <<imageVars, maskVars, triggerVars, editVars>>

\* ------------------------------------------------- undo / redo / clear
\* handleKeyDown (Ctrl+Z) and MaskingToolbar onUndo
RequestUndo(max) ==
  /\ isMasking /\ Settled
  /\ undoTrigger < max
  /\ undoTrigger' = undoTrigger + 1
  /\ UNCHANGED <<redoTrigger, clearTrigger>>
  /\ UNCHANGED <<canvasVars, imageVars, maskVars, editVars>>

\* handleKeyDown (Ctrl+Shift+Z, Ctrl+Y) and MaskingToolbar onRedo
RequestRedo(max) ==
  /\ isMasking /\ Settled
  /\ redoTrigger < max
  /\ redoTrigger' = redoTrigger + 1
  /\ UNCHANGED <<undoTrigger, clearTrigger>>
  /\ UNCHANGED <<canvasVars, imageVars, maskVars, editVars>>

\* MaskingToolbar onClear
RequestClear(max) ==
  /\ Mounted /\ isMasking /\ Settled
  /\ clearTrigger < max
  /\ clearTrigger' = clearTrigger + 1
  /\ UNCHANGED <<undoTrigger, redoTrigger>>
  /\ UNCHANGED <<canvasVars, imageVars, maskVars, editVars>>

\* faulty variant of TriggerFires: the first request is taken for the mount
TriggerFires_SkipsFirst(trigger) == trigger > 1

\* if (xTrigger > 0) ... : the guard of the three trigger effects
TriggerFires(trigger) == trigger > 0

\* faulty variant of UndoIndex: two snapshots back
UndoIndex_TwoSteps(i) == Max(0, i - 2)

\* faulty variant of UndoIndex: the clamp stops one snapshot early
UndoIndex_ClampAtOne(i) == Max(1, i - 1)

\* i => Math.max(0, i - 1)
UndoIndex(i) == Max(0, i - 1)

\* faulty variant of RedoIndex: no clamp at the last snapshot
RedoIndex_NoClamp(i, length) == i + 1

\* i => Math.min(history.length - 1, i + 1)
RedoIndex(i, length) == Min(length - 1, i + 1)

\* faulty variant of ClearResult: the empty RegionSet is stored as one more
\* snapshot, which an undo steps back from
ClearResult_EmptiesCurrent ==
  [history |-> Append(history, <<>>), historyIndex |-> Len(history)]

\* faulty variant of ClearResult: only the index is reset
ClearResult_KeepsHistory == [history |-> history, historyIndex |-> 0]

\* const newHistory = [[]]; setHistory(newHistory); setHistoryIndex(0)
ClearResult == [history |-> <<<<>>>>, historyIndex |-> 0]

\* useEffect(..., [undoTrigger])
UndoEffect ==
  /\ Mounted
  /\ undoTrigger # seenUndo
  /\ seenUndo' = undoTrigger
  /\ IF TriggerFires(undoTrigger)
     THEN historyIndex' = UndoIndex(historyIndex)
     ELSE UNCHANGED historyIndex
  /\ UNCHANGED <<history, isDrawing, currentPath, seenRedo, seenClear, imageRef, pendingLoads, loadDeps>>
  /\ UNCHANGED <<imageVars, maskVars, triggerVars, editVars>>

\* useEffect(..., [redoTrigger])
RedoEffect ==
  /\ Mounted
  /\ redoTrigger # seenRedo
  /\ seenRedo' = redoTrigger
  /\ IF TriggerFires(redoTrigger)
     THEN historyIndex' = RedoIndex(historyIndex, Len(history))
     ELSE UNCHANGED historyIndex
  /\ UNCHANGED <<history, isDrawing, currentPath, seenUndo, seenClear, imageRef, pendingLoads, loadDeps>>
  /\ UNCHANGED <<imageVars, maskVars, triggerVars, editVars>>

\* useEffect(..., [clearTrigger])
ClearEffect ==
  /\ Mounted
  /\ clearTrigger # seenClear
  /\ seenClear' = clearTrigger
  /\ IF TriggerFires(clearTrigger)
     THEN /\ history' = ClearResult.history
          /\ historyIndex' = ClearResult.historyIndex
     ELSE UNCHANGED <<history, historyIndex>>
  /\ UNCHANGED <<isDrawing, currentPath, seenUndo, seenRedo, imageRef, pendingLoads, loadDeps>>
  /\ UNCHANGED <<imageVars, maskVars, triggerVars, editVars>>

\* ------------------------------------------------ image load, notification
\* img.onload of an Image created by the image load effect; the handler
\* closes over the render that created the Image
ImageOnload(load) ==
  /\ Mounted
  /\ load \in pendingLoads
  /\ pendingLoads' = pendingLoads \ {load}
  /\ imageRef' = load.image
  /\ compositeImage' = OutputImages(load.image, load.regions, load.brush).composite
  /\ maskImage' = OutputImages(load.image, load.regions, load.brush).mask
  /\ UNCHANGED <<history, historyIndex, isDrawing, currentPath, seenUndo, seenRedo, seenClear>>
  /\ UNCHANGED loadDeps
  /\ UNCHANGED <<isMasking, brushSize, regionPrompts, canUndo, canRedo>>
  /\ UNCHANGED <<imageVars, triggerVars, editVars>>

\* the effects that run after a render, in the order of their declaration:
\* the image load effect, when one of its dependencies changed, and the
\* notification effect (generateOutputImages, onHistoryChange, onRegionsChange)
NotifyEffect ==
  /\ LoadDue \/ NotifyDue
  /\ IF LoadDue
     THEN /\ pendingLoads' = pendingLoads \union {NewLoad}
          /\ loadDeps' = CurrentLoadDeps
     ELSE UNCHANGED <<pendingLoads, loadDeps>>
  /\ compositeImage' = Notified.composite
  /\ maskImage' = Notified.mask
  /\ canUndo' = Notified.canUndo
  /\ canRedo' = Notified.canRedo
  /\ regionPrompts' = Notified.prompts
  /\ UNCHANGED <<isMasking, brushSize>>
  /\ UNCHANGED <<history, historyIndex, isDrawing, currentPath, seenUndo, seenRedo, seenClear, imageRef>>
  /\ UNCHANGED <<imageVars, triggerVars, editVars>>

\* ------------------------------------------------------------ App handlers
\* the ids that crypto.randomUUID hands out are 1..IdLimit
IdLimit == IF probe.kind = "sets" THEN MaxSetIds ELSE MaxIds

\* handleImageUpload (InitialView is rendered while no image is active)
handleImageUpload ==
  /\ ~Mounted /\ Settled
  /\ nextId + 1 <= IdLimit
  /\ LET newVersion == nextId
         newSet == [id |-> nextId + 1, versions |-> <<newVersion>>]
     IN  /\ imageSets' = Append(imageSets, newSet)
         /\ activeSetId' = newSet.id
         /\ activeVersionId' = newVersion
  /\ nextId' = nextId + 2
  /\ error' = NoError
  /\ FreshCanvas
  /\ UNCHANGED <<prompt, isLoading, inflight>>
  /\ UNCHANGED <<maskVars, triggerVars>>

\* handleSelectVersion, called by VersionHistory with a listed version
handleSelectVersion(setId, versionId) ==
  /\ Mounted /\ Settled
  /\ activeSetId' = setId
  /\ activeVersionId' = versionId
  /\ isMasking' = FALSE
  /\ compositeImage' = Null
  /\ maskImage' = Null
  /\ regionPrompts' = <<>>
  /\ CanvasFollows(ActiveImageOf(imageSets, setId, versionId))
  /\ UNCHANGED <<imageSets, nextId, brushSize, canUndo, canRedo>>
  /\ UNCHANGED <<triggerVars, editVars>>

\* faulty variant of handleToggleMasking: disabling also resets the history
handleToggleMasking_ResetsHistory ==
  /\ Mounted /\ Settled
  /\ isMasking' = ~isMasking
  /\ IF isMasking
     THEN /\ regionPrompts' = <<>>
          /\ compositeImage' = Null
          /\ maskImage' = Null
          /\ history' = <<<<>>>>
          /\ historyIndex' = 0
     ELSE UNCHANGED <<regionPrompts, compositeImage, maskImage, history, historyIndex>>
  /\ UNCHANGED <<brushSize, canUndo, canRedo>>
  /\ UNCHANGED <<isDrawing, currentPath, seenUndo, seenRedo, seenClear, imageRef, pendingLoads, loadDeps>>
  /\ UNCHANGED <<imageVars, triggerVars, editVars>>

\* handleToggleMasking
handleToggleMasking ==
  /\ Mounted /\ Settled
  /\ isMasking' = ~isMasking
  /\ IF isMasking
     THEN /\ regionPrompts' = <<>>
          /\ compositeImage' = Null
          /\ maskImage' = Null
     ELSE UNCHANGED <<regionPrompts, compositeImage, maskImage>>
  /\ UNCHANGED <<brushSize, canUndo, canRedo>>
  /\ UNCHANGED <<canvasVars, imageVars, triggerVars, editVars>>

\* MaskingToolbar onBrushSizeChange = setBrushSize
setBrushSize(size) ==
  /\ Mounted /\ isMasking /\ Settled
  /\ size # brushSize
  /\ brushSize' = size
  /\ UNCHANGED <<isMasking, regionPrompts, compositeImage, maskImage, canUndo, canRedo>>
  /\ UNCHANGED <<canvasVars, imageVars, triggerVars, editVars>>

\* EditControls region input onChange -> handleRegionPromptChange
RegionPromptInput(id, newPrompt) ==
  /\ Mounted /\ isMasking /\ Settled
  /\ Len(regionPrompts) > 0
  /\ regionPrompts' = handleRegionPromptChange(regionPrompts, id, newPrompt)
  /\ UNCHANGED <<isMasking, brushSize, compositeImage, maskImage, canUndo, canRedo>>
  /\ UNCHANGED <<canvasVars, imageVars, triggerVars, editVars>>

\* EditControls textarea onChange -> setPrompt
setPrompt(text) ==
  /\ Mounted /\ Settled
  /\ ~(isMasking /\ Len(regionPrompts) > 0)
  /\ prompt' = text
  /\ UNCHANGED <<error, isLoading, inflight>>
  /\ UNCHANGED <<canvasVars, imageVars, maskVars, triggerVars>>

\* EditControls.handleSubmit -> handleSubmitEdit, up to the backend request
handleSubmitEdit ==
  /\ Mounted /\ Settled
  /\ ~isLoading
  /\ IF isMasking /\ Len(validRegionPrompts(regionPrompts)) = 0
     THEN /\ error' = "noRegionPrompt"
          /\ UNCHANGED <<isLoading, inflight>>
     ELSE IF isMasking /\ maskImage = Null
     THEN /\ error' = "noMask"
          /\ UNCHANGED <<isLoading, inflight>>
     ELSE IF ~isMasking /\ Trim(prompt) = ""
     THEN UNCHANGED <<error, isLoading, inflight>>
     ELSE /\ isLoading' = TRUE
          /\ error' = NoError
          /\ inflight' = Some([kind        |-> "edit",
                               imageSets   |-> imageSets,
                               activeSetId |-> activeSetId,
                               image       |-> activeImage,
                               isMasking   |-> isMasking,
                               mask        |-> IF isMasking THEN maskImage ELSE Null])
  /\ UNCHANGED prompt
  /\ UNCHANGED <<canvasVars, imageVars, maskVars, triggerVars>>

\* faulty variant of AppendVersion: the new version is put first
AppendVersion_AtFront(sets, sid, newVersion) ==
  [i \in 1..Len(sets) |->
     IF sets[i].id = sid
     THEN [id |-> sets[i].id, versions |-> <<newVersion>> \o sets[i].versions]
     ELSE sets[i]]

\* newImageSets of handleSubmitEdit, from the imageSets of the submitting render
AppendVersion(sets, sid, newVersion) ==
  [i \in 1..Len(sets) |->
     IF sets[i].id = sid
     THEN [id |-> sets[i].id, versions |-> Append(sets[i].versions, newVersion)]
     ELSE sets[i]]

\* editImageWithPrompt resolves
EditSucceeds ==
  /\ Settled
  /\ inflight # Null
  /\ inflight[1].kind = "edit"
  /\ nextId <= IdLimit
  /\ LET req == inflight[1]
         newVersion == nextId
         newImageSets == AppendVersion(req.imageSets, req.activeSetId, newVersion)
     IN  /\ imageSets' = newImageSets
         /\ activeVersionId' = newVersion
         /\ CanvasFollows(ActiveImageOf(newImageSets, activeSetId, newVersion))
  /\ nextId' = nextId + 1
  /\ prompt' = ""
  /\ regionPrompts' = <<>>
  /\ isMasking' = FALSE
  /\ compositeImage' = Null
  /\ maskImage' = Null
  /\ isLoading' = FALSE
  /\ inflight' = Null
  /\ UNCHANGED <<activeSetId, brushSize, canUndo, canRedo, error>>
  /\ UNCHANGED triggerVars

\* editImageWithPrompt rejects
EditFails ==
  /\ Settled
  /\ inflight # Null
  /\ error' = "editFailed"
  /\ isLoading' = FALSE
  /\ inflight' = Null
  /\ UNCHANGED prompt
  /\ UNCHANGED <<canvasVars, imageVars, maskVars, triggerVars>>

\* ------------------------------------------- image sets and their requests
\* newSets of handleDeleteVersion
DeleteVersionSets(sets, setId, versionId) ==
  SelectSeq([i \in 1..Len(sets) |->
               IF sets[i].id = setId
               THEN [id |-> sets[i].id,
                     versions |-> SelectSeq(sets[i].versions, LAMBDA v : v # versionId)]
               ELSE sets[i]],
            LAMBDA set : Len(set.versions) > 0)

\* handleDeleteVersion, called by VersionHistory with a listed version
handleDeleteVersion(setId, versionId) ==
  /\ Mounted /\ Settled
  /\ LET newSets == DeleteVersionSets(imageSets, setId, versionId)
         si == SetIndex(newSets, setId, 1)
     IN  /\ imageSets' = newSets
         /\ IF activeVersionId = versionId
            THEN IF si # 0
                 THEN /\ activeVersionId' = newSets[si].versions[Len(newSets[si].versions)]
                      /\ UNCHANGED activeSetId
                 ELSE activeSetId' = 0 /\ activeVersionId' = 0
            ELSE UNCHANGED <<activeSetId, activeVersionId>>
         /\ CanvasFollows(ActiveImageOf(newSets, activeSetId', activeVersionId'))
  /\ UNCHANGED nextId
  /\ UNCHANGED <<maskVars, triggerVars, editVars>>

\* handleDeleteSet, called by VersionHistory with a listed set
handleDeleteSet(setId) ==
  /\ Mounted /\ Settled
  /\ imageSets' = SelectSeq(imageSets, LAMBDA set : set.id # setId)
  /\ IF activeSetId = setId
     THEN activeSetId' = 0 /\ activeVersionId' = 0
     ELSE UNCHANGED <<activeSetId, activeVersionId>>
  /\ CanvasFollows(ActiveImageOf(imageSets', activeSetId', activeVersionId'))
  /\ UNCHANGED nextId
  /\ UNCHANGED <<maskVars, triggerVars, editVars>>

\* handleNewThumbnail (the Header shows the button while an image is active)
handleNewThumbnail ==
  /\ Mounted /\ Settled
  /\ activeSetId' = 0
  /\ activeVersionId' = 0
  /\ prompt' = ""
  /\ error' = NoError
  /\ isMasking' = FALSE
  /\ compositeImage' = Null
  /\ maskImage' = Null
  /\ regionPrompts' = <<>>
  /\ FreshCanvas
  /\ UNCHANGED <<imageSets, nextId, brushSize, canUndo, canRedo, isLoading, inflight>>
  /\ UNCHANGED triggerVars

\* faulty variant of handleGenerateNextScene: the form submits while a
\* request is loading
handleGenerateNextScene_WhileLoading ==
  /\ Mounted /\ Settled
  /\ isLoading' = TRUE
  /\ error' = NoError
  /\ inflight' = Some([kind |-> "scene", imageSets |-> imageSets])
  /\ UNCHANGED prompt
  /\ UNCHANGED <<canvasVars, imageVars, maskVars, triggerVars>>

\* NextSceneGenerator.handleSubmit -> handleGenerateNextScene with a
\* non-blank prompt, up to the backend request
handleGenerateNextScene ==
  /\ Mounted /\ Settled
  /\ ~isLoading
  /\ isLoading' = TRUE
  /\ error' = NoError
  /\ inflight' = Some([kind |-> "scene", imageSets |-> imageSets])
  /\ UNCHANGED prompt
  /\ UNCHANGED <<canvasVars, imageVars, maskVars, triggerVars>>

\* generateImageWithPrompt of handleGenerateNextScene resolves
NextSceneSucceeds ==
  /\ Settled
  /\ inflight # Null
  /\ inflight[1].kind = "scene"
  /\ nextId + 1 <= IdLimit
  /\ LET newVersion == nextId
         newSet == [id |-> nextId + 1, versions |-> <<newVersion>>]
     IN  /\ imageSets' = Append(inflight[1].imageSets, newSet)
         /\ activeSetId' = newSet.id
         /\ activeVersionId' = newVersion
         /\ CanvasFollows(newVersion)
  /\ nextId' = nextId + 2
  /\ isLoading' = FALSE
  /\ inflight' = Null
  /\ UNCHANGED <<prompt, error>>
  /\ UNCHANGED <<maskVars, triggerVars>>

\* Generator.handleSubmit -> handleImageGenerate with a non-blank prompt, up
\* to the backend request (InitialView is rendered while no image is active)
handleImageGenerate ==
  /\ ~Mounted /\ Settled
  /\ ~isLoading
  /\ isLoading' = TRUE
  /\ error' = NoError
  /\ inflight' = Some([kind |-> "generate"])
  /\ UNCHANGED prompt
  /\ UNCHANGED <<canvasVars, imageVars, maskVars, triggerVars>>

\* generateImageWithPrompt of handleImageGenerate resolves
GenerateSucceeds ==
  /\ Settled
  /\ inflight # Null
  /\ inflight[1].kind = "generate"
  /\ nextId + 1 <= IdLimit
  /\ LET newVersion == nextId
         newSet == [id |-> nextId + 1, versions |-> <<newVersion>>]
     IN  /\ imageSets' = Append(imageSets, newSet)
         /\ activeSetId' = newSet.id
         /\ activeVersionId' = newVersion
         /\ CanvasFollows(newVersion)
  /\ nextId' = nextId + 2
  /\ isLoading' = FALSE
  /\ inflight' = Null
  /\ UNCHANGED <<prompt, error>>
  /\ UNCHANGED <<maskVars, triggerVars>>

\* -------------------------------------------------------------------- Next
\* the masking canvas and its toolbar
Next ==
  \/ /\ \E kind \in {"mouse0", "mouse2", "touch"}, point \in Points :
           StartDrawing(kind, point)
     /\ UNCHANGED probe
  \/ (\E point \in Points : Draw(point)) /\ UNCHANGED probe
  \/ StopDrawing /\ UNCHANGED probe
  \/ RequestUndo(MaxTrigger) /\ UNCHANGED probe
  \/ RequestRedo(MaxTrigger) /\ UNCHANGED probe
  \/ RequestClear(MaxTrigger) /\ UNCHANGED probe
  \/ UndoEffect /\ UNCHANGED probe
  \/ RedoEffect /\ UNCHANGED probe
  \/ ClearEffect /\ UNCHANGED probe
  \/ (\E load \in pendingLoads : ImageOnload(load)) /\ UNCHANGED probe
  \/ NotifyEffect /\ UNCHANGED probe
  \/ handleImageUpload /\ UNCHANGED probe
  \/ handleToggleMasking /\ UNCHANGED probe
  \/ (\E size \in BrushSizes : setBrushSize(size)) /\ UNCHANGED probe

Spec == Init /\ [][Next]_vars

\* the editing workflow around the canvas: single-point strokes, one brush
NextEdit ==
  \/ (\E point \in Points : StartDrawing("mouse0", point)) /\ UNCHANGED probe
  \/ StopDrawing /\ UNCHANGED probe
  \/ RequestUndo(MaxEditTrigger) /\ UNCHANGED probe
  \/ RequestRedo(MaxEditTrigger) /\ UNCHANGED probe
  \/ RequestClear(MaxEditTrigger) /\ UNCHANGED probe
  \/ UndoEffect /\ UNCHANGED probe
  \/ RedoEffect /\ UNCHANGED probe
  \/ ClearEffect /\ UNCHANGED probe
  \/ (\E load \in pendingLoads : ImageOnload(load)) /\ UNCHANGED probe
  \/ NotifyEffect /\ UNCHANGED probe
  \/ handleImageUpload /\ UNCHANGED probe
  \/ handleToggleMasking /\ UNCHANGED probe
  \/ /\ \E i \in 1..Len(imageSets) : \E j \in 1..Len(imageSets[i].versions) :
           handleSelectVersion(imageSets[i].id, imageSets[i].versions[j])
     /\ UNCHANGED probe
  \/ /\ \E i \in 1..Len(regionPrompts), text \in Texts :
           RegionPromptInput(regionPrompts[i].id, text)
     /\ UNCHANGED probe
  \/ (\E text \in Texts : setPrompt(text)) /\ UNCHANGED probe
  \/ handleSubmitEdit /\ UNCHANGED probe
  \/ EditSucceeds /\ UNCHANGED probe
  \/ EditFails /\ UNCHANGED probe

SpecEdit == Init /\ [][NextEdit]_vars

\* the image sets, their versions and the backend requests; the catch and
\* finally blocks of the three requests are the same (EditFails)
InitSets == ProgInit /\ probe = [kind |-> "sets"]

NextSets ==
  \/ handleImageUpload /\ UNCHANGED probe
  \/ handleImageGenerate /\ UNCHANGED probe
  \/ GenerateSucceeds /\ UNCHANGED probe
  \/ setPrompt("a") /\ UNCHANGED probe
  \/ handleSubmitEdit /\ UNCHANGED probe
  \/ EditSucceeds /\ UNCHANGED probe
  \/ EditFails /\ UNCHANGED probe
  \/ handleGenerateNextScene /\ UNCHANGED probe
  \/ NextSceneSucceeds /\ UNCHANGED probe
  \/ /\ \E i \in 1..Len(imageSets) : \E j \in 1..Len(imageSets[i].versions) :
           handleSelectVersion(imageSets[i].id, imageSets[i].versions[j])
     /\ UNCHANGED probe
  \/ /\ \E i \in 1..Len(imageSets) : \E j \in 1..Len(imageSets[i].versions) :
           handleDeleteVersion(imageSets[i].id, imageSets[i].versions[j])
     /\ UNCHANGED probe
  \/ (\E i \in 1..Len(imageSets) : handleDeleteSet(imageSets[i].id)) /\ UNCHANGED probe
  \/ handleNewThumbnail /\ UNCHANGED probe
  \/ (\E load \in pendingLoads : ImageOnload(load)) /\ UNCHANGED probe
  \/ NotifyEffect /\ UNCHANGED probe

SpecSets == InitSets /\ [][NextSets]_vars

\* ------------------------------------ input while image loads are pending
\* the canvas with image loads that complete late and in any order: input
\* events are handled while at most MaxPending loads are outstanding
InitLoad == ProgInit /\ probe = [kind |-> "lateLoads"]

NextLoad ==
  \/ handleImageUpload /\ UNCHANGED probe
  \/ handleToggleMasking /\ UNCHANGED probe
  \/ /\ Cardinality(pendingLoads) < MaxPending
     /\ \E point \in Points : StartDrawing("mouse0", point)
     /\ UNCHANGED probe
  \/ StopDrawing /\ UNCHANGED probe
  \/ /\ Cardinality(pendingLoads) < MaxPending
     /\ RequestUndo(MaxLoadTrigger)
     /\ UNCHANGED probe
  \/ /\ Cardinality(pendingLoads) < MaxPending
     /\ RequestRedo(MaxLoadTrigger)
     /\ UNCHANGED probe
  \/ /\ Cardinality(pendingLoads) < MaxPending
     /\ RequestClear(MaxLoadTrigger)
     /\ UNCHANGED probe
  \/ /\ Cardinality(pendingLoads) < MaxPending
     /\ \E size \in BrushSizes : setBrushSize(size)
     /\ UNCHANGED probe
  \/ UndoEffect /\ UNCHANGED probe
  \/ RedoEffect /\ UNCHANGED probe
  \/ ClearEffect /\ UNCHANGED probe
  \/ NotifyEffect /\ UNCHANGED probe
  \/ (\E load \in pendingLoads : ImageOnload(load)) /\ UNCHANGED probe

SpecLoad == InitLoad /\ [][NextLoad]_vars

\* ------------------------------ version switches while loads are pending
\* versions are selected and strokes committed while at most MaxPending image
\* loads are outstanding; a backend request is only made and answered when no
\* load is outstanding
NextSwitch ==
  \/ handleImageUpload /\ UNCHANGED probe
  \/ pendingLoads = {} /\ setPrompt("a") /\ UNCHANGED probe
  \/ pendingLoads = {} /\ handleSubmitEdit /\ UNCHANGED probe
  \/ pendingLoads = {} /\ EditSucceeds /\ UNCHANGED probe
  \/ /\ Cardinality(pendingLoads) < MaxPending
     /\ \E i \in 1..Len(imageSets) : \E j \in 1..Len(imageSets[i].versions) :
           handleSelectVersion(imageSets[i].id, imageSets[i].versions[j])
     /\ UNCHANGED probe
  \/ /\ Cardinality(pendingLoads) < MaxPending
     /\ handleToggleMasking
     /\ UNCHANGED probe
  \/ /\ Cardinality(pendingLoads) < MaxPending
     /\ \E point \in Points : StartDrawing("mouse0", point)
     /\ UNCHANGED probe
  \/ StopDrawing /\ UNCHANGED probe
  \/ NotifyEffect /\ UNCHANGED probe
  \/ (\E load \in pendingLoads : ImageOnload(load)) /\ UNCHANGED probe

SpecSwitch == InitLoad /\ [][NextSwitch]_vars

\* ------------------------------------------- N strokes, N undos, N redos
\* probe counts the committed strokes (n), the requests of the running phase
\* (k) and remembers the RegionSet after the last stroke (final)
InitRoundTrip ==
  /\ ProgInit
  /\ probe = [kind |-> "roundtrip", phase |-> "stroke", n |-> 0, k |-> 0,
              final |-> <<>>]

NextRoundTrip ==
  \/ handleImageUpload /\ UNCHANGED probe
  \/ ~isMasking /\ handleToggleMasking /\ UNCHANGED probe
  \/ (\E load \in pendingLoads : ImageOnload(load)) /\ UNCHANGED probe
  \/ NotifyEffect /\ UNCHANGED probe
  \/ UndoEffect /\ UNCHANGED probe
  \/ RedoEffect /\ UNCHANGED probe
  \/ /\ probe.phase = "stroke"
     /\ \E size \in BrushSizes : setBrushSize(size)
     /\ UNCHANGED probe
  \/ /\ probe.phase = "stroke"
     /\ \E kind \in {"mouse0", "touch"}, point \in Points : StartDrawing(kind, point)
     /\ UNCHANGED probe
  \/ /\ probe.phase = "stroke"
     /\ \E point \in Points : Draw(point)
     /\ UNCHANGED probe
  \/ /\ probe.phase = "stroke"
     /\ StopDrawing
     /\ probe' = IF isDrawing /\ Len(currentPath) > 0
                 THEN [probe EXCEPT !.n = @ + 1, !.final = regions']
                 ELSE probe
  \/ /\ \/ probe.phase = "stroke" /\ probe.n >= 1 /\ ~isDrawing
        \/ probe.phase = "undo" /\ probe.k < probe.n
     /\ RequestUndo(MaxHistory)
     /\ probe' = [probe EXCEPT !.phase = "undo",
                               !.k = IF probe.phase = "undo" THEN @ + 1 ELSE 1]
  \/ /\ \/ probe.phase = "undo" /\ probe.k = probe.n
        \/ probe.phase = "redo" /\ probe.k < probe.n
     /\ RequestRedo(MaxHistory)
     /\ probe' = [probe EXCEPT !.phase = "redo",
                               !.k = IF probe.phase = "redo" THEN @ + 1 ELSE 1]

SpecRoundTrip == InitRoundTrip /\ [][NextRoundTrip]_vars

\* ------------------------------------- two strokes on an empty RegionSet
MergePoints == [x : {GridStep * i : i \in 0..MaxMergeX},
                y : {GridStep * i : i \in 0..MaxMergeY}]
MergePaths  == {<<p>> : p \in MergePoints} \union
               {<<p, q>> : p \in MergePoints, q \in MergePoints}
MergeBrushes == {BrushMin, 24, BrushInit, 48, BrushMax}

\* probe holds the two paths a and b, the brush, and the RegionSets obtained
\* by committing a then b (ab) and b then a (ba)
InitMerge ==
  /\ ProgInit
  /\ \E a \in MergePaths, b \in MergePaths, brush \in MergeBrushes :
       probe = [kind |-> "merge", a |-> a, b |-> b, brush |-> brush,
                step |-> 0, ab |-> <<>>, ba |-> <<>>]

CommitFirst ==
  /\ probe.step = 0
  /\ probe' = [probe EXCEPT !.step = 1,
                            !.ab = MergeStroke(<<>>, probe.a, probe.brush),
                            !.ba = MergeStroke(<<>>, probe.b, probe.brush)]
  /\ UNCHANGED progVars

CommitSecond ==
  /\ probe.step = 1
  /\ probe' = [probe EXCEPT !.step = 2,
                            !.ab = MergeStroke(probe.ab, probe.b, probe.brush),
                            !.ba = MergeStroke(probe.ba, probe.a, probe.brush)]
  /\ UNCHANGED progVars

NextMerge == CommitFirst \/ CommitSecond

SpecMerge == InitMerge /\ [][NextMerge]_vars

\* -------------------------------------- strokes, a clear, undos and redos
\* probe holds the phase: strokes with undos and redos, then "cleared" from
\* the clear request on, with the numbers of undo and redo requests since,
\* and "restroked" once a stroke has been committed after the clear
InitAfterClear ==
  /\ ProgInit
  /\ probe = [kind |-> "afterclear", phase |-> "stroke", undos |-> 0, redos |-> 0]

NextAfterClear ==
  \/ handleImageUpload /\ UNCHANGED probe
  \/ ~isMasking /\ handleToggleMasking /\ UNCHANGED probe
  \/ (\E load \in pendingLoads : ImageOnload(load)) /\ UNCHANGED probe
  \/ NotifyEffect /\ UNCHANGED probe
  \/ UndoEffect /\ UNCHANGED probe
  \/ RedoEffect /\ UNCHANGED probe
  \/ ClearEffect /\ UNCHANGED probe
  \/ /\ probe.phase # "restroked"
     /\ \E point \in Points : StartDrawing("mouse0", point)
     /\ UNCHANGED probe
  \/ /\ StopDrawing
     /\ probe' = IF probe.phase = "cleared" /\ isDrawing /\ Len(currentPath) > 0
                 THEN [probe EXCEPT !.phase = "restroked"]
                 ELSE probe
  \/ /\ probe.phase = "stroke"
     /\ RequestUndo(1)
     /\ UNCHANGED probe
  \/ /\ probe.phase = "stroke"
     /\ RequestRedo(1)
     /\ UNCHANGED probe
  \/ /\ probe.phase = "stroke"
     /\ RequestClear(1)
     /\ probe' = [probe EXCEPT !.phase = "cleared"]
  \/ /\ probe.phase = "cleared"
     /\ RequestUndo(1 + MaxTrigger)
     /\ probe' = [probe EXCEPT !.undos = @ + 1]
  \/ /\ probe.phase = "cleared"
     /\ RequestRedo(1 + MaxTrigger)
     /\ probe' = [probe EXCEPT !.redos = @ + 1]

SpecAfterClear == InitAfterClear /\ [][NextAfterClear]_vars

\* ------------------------------------- strokes committed one after another
\* Every snapshot that updateHistory stores is the MergeStroke of an earlier
\* snapshot, the first being the empty RegionSet.  probe holds the RegionSet
\* rs, the RegionSet prev it was computed from, and the path and the brush of
\* the last stroke.
CommitPaths == {path \in MergePaths : \A i \in 1..Len(path) : path[i].y = 0}

InitCommit ==
  /\ ProgInit
  /\ probe = [kind |-> "commit", n |-> 0, rs |-> <<>>, prev |-> <<>>,
              path |-> <<>>, brush |-> BrushInit]

CommitStroke ==
  /\ probe.n < MaxCommits
  /\ \E path \in CommitPaths, brush \in BrushSizes :
       probe' = [probe EXCEPT !.n = probe.n + 1,
                              !.prev = probe.rs,
                              !.path = path,
                              !.brush = brush,
                              !.rs = MergeStroke(probe.rs, path, brush)]
  /\ UNCHANGED progVars

NextCommit == CommitStroke

SpecCommit == InitCommit /\ [][NextCommit]_vars

\* ------------------------------------------ one call of handleRegionsChange
RECURSIVE DistinctSeqs(_)
\* the sequences without repetition over the set ids
DistinctSeqs(ids) ==
  {<<>>} \union UNION {{<<i>> \o rest : rest \in DistinctSeqs(ids \ {i})} : i \in ids}

PromptIds == 1..MaxPromptId

\* the prompt lists over a sequence of ids
PromptLists(idSeq) ==
  {[i \in 1..Len(idSeq) |-> [id |-> idSeq[i], prompt |-> f[i]]] :
     f \in [1..Len(idSeq) -> Texts]}

InitPrompts ==
  /\ ProgInit
  /\ \E ids \in DistinctSeqs(PromptIds), prevIds \in DistinctSeqs(PromptIds) :
       \E prev \in PromptLists(prevIds) :
         probe = [kind |-> "prompts", ids |-> ids, prev |-> prev,
                  done |-> FALSE, out |-> <<>>]

CallHandleRegionsChange ==
  /\ ~probe.done
  /\ probe' = [probe EXCEPT !.done = TRUE,
                            !.out = handleRegionsChange(probe.ids, probe.prev)]
  /\ UNCHANGED progVars

NextPrompts == CallHandleRegionsChange

SpecPrompts == InitPrompts /\ [][NextPrompts]_vars

\* ------------------------------------------------------------ mask export
\* The mask canvas has the natural size of the image and is painted black;
\* a pixel is white when one of the three paint operations covers it.  The
\* mask is represented by the set of its white pixels among the sampled ones.
MaskWidth  == MaxMaskX * MaskStep + 1
MaskHeight == MaxMaskY * MaskStep + 1
Pixels == [x : {PixelStep * i : i \in 0..((MaskWidth - 1) \div PixelStep)},
           y : {PixelStep * i : i \in 0..((MaskHeight - 1) \div PixelStep)}]

Sq(n) == n * n

\* ctx.stroke() with lineWidth brush and round caps and joins covers the
\* pixels within brush / 2 of the segment a-b
InSegmentStroke(p, a, b, brush) ==
  LET l2  == Sq(b.x - a.x) + Sq(b.y - a.y)
      dot == (p.x - a.x) * (b.x - a.x) + (p.y - a.y) * (b.y - a.y)
      pa2 == Sq(p.x - a.x) + Sq(p.y - a.y)
      pb2 == Sq(p.x - b.x) + Sq(p.y - b.y)
  IN  IF l2 = 0 \/ dot <= 0 THEN 4 * pa2 <= Sq(brush)
      ELSE IF dot >= l2 THEN 4 * pb2 <= Sq(brush)
      ELSE 4 * (pa2 * l2 - Sq(dot)) <= Sq(brush) * l2

\* a path of one point is a subpath without a segment: stroke() paints nothing
InStroke(p, path, brush) ==
  \E i \in 1..(Len(path) - 1) : InSegmentStroke(p, path[i], path[i + 1], brush)

Cross(a, b, p) == (b.x - a.x) * (p.y - a.y) - (b.y - a.y) * (p.x - a.x)

\* ctx.fill() closes the path and paints its interior: nothing for fewer than
\* three points, the triangle for three
InFill(p, path) ==
  /\ Len(path) = 3
  /\ Cross(path[1], path[2], path[3]) # 0
  /\ LET c1 == Cross(path[1], path[2], p)
         c2 == Cross(path[2], path[3], p)
         c3 == Cross(path[3], path[1], p)
     IN  \/ (c1 >= 0 /\ c2 >= 0 /\ c3 >= 0)
         \/ (c1 <= 0 /\ c2 <= 0 /\ c3 <= 0)

\* drawRegionsOnContext(maskCtx, '#FFFFFF', true): the pixels covered by the
\* stroked and filled paths of the regions
drawRegionsOnContext(rs, brush) ==
  {p \in Pixels : \E i \in 1..Len(rs) : \E j \in 1..Len(rs[i].paths) :
                    InStroke(p, rs[i].paths[j], brush) \/ InFill(p, rs[i].paths[j])}

baseFontSize == Max(FontMin, (Min(MaskWidth, MaskHeight) * FontPercent) \div 100)

\* fillText(String(region.id), centerX, centerY) with textAlign center and
\* textBaseline middle paints the glyphs of the id inside the box of one font
\* size around the centre of the region's bbox
GlyphBox(region) ==
  {p \in Pixels :
     /\ 2 * p.x - (region.bbox.minX + region.bbox.maxX) \in -baseFontSize..baseFontSize
     /\ 2 * p.y - (region.bbox.minY + region.bbox.maxY) \in -baseFontSize..baseFontSize}

\* drawRegionNumbersOnContext(maskCtx, true): which pixels of the box a glyph
\* covers depends on the font of the browser; every non-blank glyph covers at
\* least one, and one covered pixel per region is kept
drawRegionNumbersOnContext(rs) ==
  {{ink[i] : i \in 1..Len(rs)} :
     ink \in {f \in [1..Len(rs) -> Pixels] : \A i \in 1..Len(rs) : f[i] \in GlyphBox(rs[i])}}

\* the white pixels of the masks that generateOutputImages can export
MaskExports(rs, brush) ==
  {drawRegionsOnContext(rs, brush) \union numbers : numbers \in drawRegionNumbersOnContext(rs)}

MaskPoints == [x : {MaskStep * i : i \in 0..MaxMaskX},
               y : {MaskStep * i : i \in 0..MaxMaskY}]
PointKey(p) == p.x * (MaxMaskY + 1) * MaskStep + p.y
MaskPaths ==
  UNION {{path \in [1..n -> MaskPoints] :
            \A i \in 1..(n - 1) : PointKey(path[i]) < PointKey(path[i + 1])} : n \in 1..3}
MaskBrushes == {BrushMin, 16, BrushInit}

\* probe holds the two strokes a and b, the brush, the RegionSet after the
\* strokes, and the white pixels of the exported mask
InitMask ==
  /\ ProgInit
  /\ \E a \in MaskPaths, b \in MaskPaths, brush \in MaskBrushes :
       probe = [kind |-> "mask", a |-> a, b |-> b, brush |-> brush,
                step |-> 0, rs |-> <<>>, mask |-> {}]

DrawStrokes ==
  /\ probe.step = 0
  /\ probe' = [probe EXCEPT !.step = 1,
                 !.rs = MergeStroke(MergeStroke(<<>>, probe.a, probe.brush),
                                    probe.b, probe.brush)]
  /\ UNCHANGED progVars

ExportMask ==
  /\ probe.step = 1
  /\ \E m \in MaskExports(probe.rs, probe.brush) :
       probe' = [probe EXCEPT !.step = 2, !.mask = m]
  /\ UNCHANGED progVars

NextMask == DrawStrokes \/ ExportMask

SpecMask == InitMask /\ [][NextMask]_vars

\* ------------------------------------------- API keys and the retry loop
\* probe holds the key store (keys and index in localStorage, keyStatus in
\* memory), the clock, and the withErrorHandling calls.  An API key is
\* represented by a number.  JavaScript runs the code between two awaits
\* without interruption: a call that is at "get" is inside such a section.
ApiKeys == 1..MaxKeys
BlankKey == 0
Callers == 1..MaxCallers

KeySet(keys) == {keys[i] : i \in 1..Len(keys)}

\* status && !(status.exhaustedUntil < Date.now())
OnCooldown(keyStatus, key, now) ==
  keyStatus[key] # Null /\ ~(keyStatus[key][1] < now)

markKeyAsExhausted_NoCooldown(keyStatus, key, now) == keyStatus

markKeyAsExhausted(keyStatus, key, now) ==
  [keyStatus EXCEPT ![key] = Some(now + EXHAUSTION_PERIOD_MS)]

ValidOffsets_IgnoresStatus(keys, index, keyStatus, now) == 0..(Len(keys) - 1)

\* the offsets i of the loop at which the key is valid to use
ValidOffsets(keys, index, keyStatus, now) ==
  {i \in 0..(Len(keys) - 1) :
     ~OnCooldown(keyStatus, keys[((index + i) % Len(keys)) + 1], now)}

SetMin(S) == CHOOSE m \in S : \A n \in S : m <= n

\* faulty variant of getNextKey: the persisted index is not advanced
getNextKey_KeepsIndex(keys, index, keyStatus, now) ==
  IF Len(keys) = 0
    THEN [threw |-> TRUE, key |-> 0, index |-> index, keyStatus |-> keyStatus]
  ELSE IF ValidOffsets(keys, index, keyStatus, now) = {}
    THEN [threw |-> TRUE, key |-> 0, index |-> index, keyStatus |-> keyStatus]
  ELSE LET currentIndex ==
             (index + SetMin(ValidOffsets(keys, index, keyStatus, now))) % Len(keys)
           key == keys[currentIndex + 1]
       IN  [threw |-> FALSE, key |-> key,
            index |-> currentIndex,
            keyStatus |-> [keyStatus EXCEPT ![key] = Null]]

getNextKey(keys, index, keyStatus, now) ==
  IF Len(keys) = 0
    THEN [threw |-> TRUE, key |-> 0, index |-> index, keyStatus |-> keyStatus]
  ELSE IF ValidOffsets(keys, index, keyStatus, now) = {}
    THEN [threw |-> TRUE, key |-> 0, index |-> index, keyStatus |-> keyStatus]
  ELSE LET currentIndex ==
             (index + SetMin(ValidOffsets(keys, index, keyStatus, now))) % Len(keys)
           key == keys[currentIndex + 1]
       IN  [threw |-> FALSE, key |-> key,
            index |-> (currentIndex + 1) % Len(keys),
            keyStatus |-> [keyStatus EXCEPT ![key] = Null]]

IdleCall == [pc |-> "idle", totalKeys |-> 0, i |-> 0, key |-> 0, tried |-> <<>>,
             attempt |-> "none", outcome |-> "none",
             expired |-> FALSE, deleted |-> FALSE]

\* a call that has returned or thrown; attempt is how its last apiCall settled
Ended(attempt, outcome) ==
  [IdleCall EXCEPT !.pc = "ended", !.attempt = attempt, !.outcome = outcome]

\* marked remembers for each key the exhaustedUntil of its last
\* markKeyAsExhausted until getNextKey returns the key; result is what the
\* last getNextKey returned and whether it cleared the status of the key;
\* issued are the keys that getNextKey has handed to a retry loop
KeyStore(kind) ==
  [kind |-> kind, keys |-> <<>>, index |-> 0,
   keyStatus |-> [k \in ApiKeys |-> Null], now |-> 0,
   marked |-> [k \in ApiKeys |-> Null],
   result |-> [threw |-> FALSE, key |-> 0, cleared |-> FALSE], issued |-> {},
   deletes |-> 0,
   calls |-> [c \in Callers |-> IdleCall]]

\* some call is between two awaits
Running == \E c \in Callers : probe.calls[c].pc = "get"

\* a call is past its start and not yet ended
InFlight(call) == call.pc \in {"get", "await"}

\* faulty variant of addKey: a key that is already stored is added again
addKey_NoIncludesCheck(key) ==
  /\ ~Running
  /\ IF key = BlankKey
       THEN UNCHANGED probe
       ELSE probe' = [probe EXCEPT !.keys = Append(probe.keys, key),
                                   !.keyStatus[key] = Null]
  /\ UNCHANGED progVars

\* addKey; BlankKey stands for a key whose trim() is empty
addKey(key) ==
  /\ ~Running
  /\ IF key = BlankKey \/ key \in KeySet(probe.keys)
       THEN UNCHANGED probe
       ELSE probe' = [probe EXCEPT !.keys = Append(probe.keys, key),
                                   !.keyStatus[key] = Null]
  /\ UNCHANGED progVars

\* faulty variant of deleteKey: the index is left as it is
deleteKey_KeepsIndex(keyToDelete) ==
  /\ ~Running
  /\ keyToDelete \in KeySet(probe.keys)
  /\ LET newKeys == SelectSeq(probe.keys, LAMBDA k : k # keyToDelete)
     IN  probe' = [probe EXCEPT
                     !.keys = newKeys,
                     !.keyStatus[keyToDelete] = Null,
                     !.deletes = Min(probe.deletes + 1, MaxDeletes),
                     !.calls = [c \in Callers |->
                                  IF InFlight(probe.calls[c])
                                    THEN [probe.calls[c] EXCEPT !.deleted = TRUE]
                                    ELSE probe.calls[c]]]
  /\ UNCHANGED progVars

deleteKey(keyToDelete) ==
  /\ ~Running
  /\ keyToDelete \in KeySet(probe.keys)
  /\ LET newKeys == SelectSeq(probe.keys, LAMBDA k : k # keyToDelete)
     IN  probe' = [probe EXCEPT
                     !.keys = newKeys,
                     !.keyStatus[keyToDelete] = Null,
                     !.deletes = Min(probe.deletes + 1, MaxDeletes),
                     !.index = IF probe.index >= Len(newKeys) THEN 0 ELSE probe.index,
                     !.calls = [c \in Callers |->
                                  IF InFlight(probe.calls[c])
                                    THEN [probe.calls[c] EXCEPT !.deleted = TRUE]
                                    ELSE probe.calls[c]]]
  /\ UNCHANGED progVars

\* Date.now() advances by ms; a call in flight sees a cooldown expire when
\* the exhaustedUntil of some key drops below the clock
Tick(maxTicks, ms) ==
  /\ ~Running
  /\ probe.now < maxTicks * ms
  /\ LET now2 == probe.now + ms
         expires == \E k \in ApiKeys : /\ OnCooldown(probe.keyStatus, k, probe.now)
                                       /\ ~OnCooldown(probe.keyStatus, k, now2)
     IN  probe' = [probe EXCEPT
                     !.now = now2,
                     !.calls = [c \in Callers |->
                                  IF InFlight(probe.calls[c]) /\ expires
                                    THEN [probe.calls[c] EXCEPT !.expired = TRUE]
                                    ELSE probe.calls[c]]]
  /\ UNCHANGED progVars

\* ---- the key store on its own: markKeyAsExhausted and getNextKey are called
\* by the retry loops, for a key that can have been deleted in the meantime
InitKeys ==
  /\ ProgInit
  /\ probe = KeyStore("keys")

MarkKeyAsExhaustedCall(key) ==
  /\ key \in probe.issued
  /\ probe' = [probe EXCEPT
       !.keyStatus = markKeyAsExhausted(probe.keyStatus, key, probe.now),
       !.marked = markKeyAsExhausted(probe.marked, key, probe.now)]
  /\ UNCHANGED progVars

GetNextKeyCall ==
  /\ LET r == getNextKey(probe.keys, probe.index, probe.keyStatus, probe.now)
     IN  probe' = [probe EXCEPT
           !.index = r.index,
           !.keyStatus = r.keyStatus,
           !.marked = IF r.threw THEN probe.marked
                      ELSE [probe.marked EXCEPT ![r.key] = Null],
           !.issued = IF r.threw THEN probe.issued ELSE probe.issued \union {r.key},
           !.result = [threw |-> r.threw, key |-> r.key,
                       cleared |-> ~r.threw /\ probe.keyStatus[r.key] # Null]]
  /\ UNCHANGED progVars

NextKeys ==
  \/ \E k \in ApiKeys \union {BlankKey} : addKey(k)
  \/ \E k \in ApiKeys : deleteKey(k)
  \/ Tick(MaxTicks, TickMs)
  \/ \E k \in ApiKeys : MarkKeyAsExhaustedCall(k)
  \/ GetNextKeyCall

SpecKeys == InitKeys /\ [][NextKeys]_vars

\* ---- getNextKey called Len(keys) times in a row: after any use of the key
\* store, start remembers the persisted index and run the keys returned since
InitRotation ==
  /\ ProgInit
  /\ probe = KeyStore("rotation") @@ [phase |-> "setup", start |-> 0, run |-> <<>>]

NextRotation ==
  \/ probe.phase = "setup" /\ \E k \in ApiKeys : addKey(k)
  \/ probe.phase = "setup" /\ \E k \in ApiKeys : deleteKey(k)
  \/ probe.phase = "setup" /\ Tick(MaxRetryTicks, 2 * TickMs)
  \/ probe.phase = "setup" /\ \E k \in ApiKeys : MarkKeyAsExhaustedCall(k)
  \/ probe.phase = "setup" /\ GetNextKeyCall
  \/ /\ probe.phase = "setup"
     /\ Len(probe.keys) > 0
     /\ probe' = [probe EXCEPT !.phase = "run", !.start = probe.index]
     /\ UNCHANGED progVars
  \/ /\ probe.phase = "run"
     /\ Len(probe.run) < Len(probe.keys)
     /\ LET r == getNextKey(probe.keys, probe.index, probe.keyStatus, probe.now)
        IN  probe' = [probe EXCEPT !.index = r.index,
                                   !.keyStatus = r.keyStatus,
                                   !.run = Append(probe.run, r.key)]
     /\ UNCHANGED progVars

SpecRotation == InitRotation /\ [][NextRotation]_vars

\* ---- withErrorHandling
InitRetry ==
  /\ ProgInit
  /\ probe = KeyStore("retry")

\* withErrorHandling up to the loop
StartCall(c) ==
  /\ ~Running
  /\ probe.calls[c].pc = "idle"
  /\ probe' = [probe EXCEPT !.calls[c] =
       IF Len(probe.keys) = 0
         THEN Ended("none", "thrown")
         ELSE [IdleCall EXCEPT !.pc = "get", !.totalKeys = Len(probe.keys)]]
  /\ UNCHANGED progVars

\* one iteration of the loop up to the await of apiCall
GetKey(c) ==
  /\ probe.calls[c].pc = "get"
  /\ LET r == getNextKey(probe.keys, probe.index, probe.keyStatus, probe.now)
         call == probe.calls[c]
     IN  probe' = [probe EXCEPT
           !.index = r.index,
           !.keyStatus = r.keyStatus,
           !.calls[c] = IF r.threw
                          THEN Ended(call.attempt, "thrown")
                          ELSE [call EXCEPT !.pc = "await", !.key = r.key,
                                            !.tried = Append(call.tried, r.key)]]
  /\ UNCHANGED progVars

\* apiCall resolves
AttemptSucceeds(c) ==
  /\ ~Running
  /\ probe.calls[c].pc = "await"
  /\ probe' = [probe EXCEPT !.calls[c] = Ended("success", "result")]
  /\ UNCHANGED progVars

\* apiCall rejects with a quota error
AttemptRateLimited(c) ==
  /\ ~Running
  /\ probe.calls[c].pc = "await"
  /\ LET call == probe.calls[c]
     IN  probe' = [probe EXCEPT
           !.keyStatus = markKeyAsExhausted(probe.keyStatus, call.key, probe.now),
           !.calls[c] = IF call.i + 1 < call.totalKeys
                          THEN [call EXCEPT !.pc = "get", !.i = call.i + 1,
                                            !.key = 0, !.attempt = "quota"]
                          ELSE Ended("quota", "thrown")]
  /\ UNCHANGED progVars

\* apiCall rejects with another error
AttemptFails(c) ==
  /\ ~Running
  /\ probe.calls[c].pc = "await"
  /\ probe' = [probe EXCEPT !.calls[c] = Ended("other", "thrown")]
  /\ UNCHANGED progVars

AttemptSettles(c) == AttemptSucceeds(c) \/ AttemptRateLimited(c) \/ AttemptFails(c)

NextRetry ==
  \/ \E k \in ApiKeys : addKey(k)
  \/ \E k \in ApiKeys : probe.deletes < MaxDeletes /\ deleteKey(k)
  \/ Tick(MaxRetryTicks, 2 * TickMs)
  \/ \E c \in Callers : StartCall(c)
  \/ \E c \in Callers : GetKey(c)
  \/ \E c \in Callers : AttemptSucceeds(c)
  \/ \E c \in Callers : AttemptRateLimited(c)
  \/ \E c \in Callers : AttemptFails(c)

\* the code between two awaits runs to its end, and the promise of apiCall
\* settles
SpecRetry ==
  /\ InitRetry
  /\ [][NextRetry]_vars
  /\ \A c \in Callers : WF_vars(GetKey(c)) /\ WF_vars(AttemptSettles(c))

\* ---- the error that withErrorHandling throws
\* an error message, by the substrings the code looks for: 'quota' in any
\* case, '429', 'RESOURCE_EXHAUSTED' in upper case ("upper") or in another
\* case ("other"), and 'api key not valid' or 'api_key' in any case
ErrorMessages ==
  [quota : BOOLEAN, code429 : BOOLEAN,
   resourceExhausted : {"none", "upper", "other"}, apiKey : BOOLEAN]

\* isQuotaError of withErrorHandling
isQuotaError(m) == m.quota \/ m.code429 \/ m.resourceExhausted = "upper"

\* finalMessage of handleError
handleError(m) ==
  IF m.apiKey THEN "An API key is invalid"
  ELSE IF m.quota \/ m.resourceExhausted # "none"
    THEN "All available API keys have exceeded their quota"
  ELSE "An unexpected error occurred"

\* one withErrorHandling call; thrown is the message of the error it threw
\* after an attempt, allQuota whether every attempt so far was classified as
\* a rate limit
InitThrown ==
  /\ ProgInit
  /\ probe = KeyStore("thrown") @@ [thrown |-> "none", allQuota |-> TRUE]

NextThrown ==
  \/ probe.calls[1].pc = "idle" /\ \E k \in ApiKeys : addKey(k)
  \/ StartCall(1)
  \/ GetKey(1)
  \/ AttemptSucceeds(1)
  \/ \E m \in ErrorMessages :
       /\ ~Running
       /\ probe.calls[1].pc = "await"
       /\ LET call == probe.calls[1]
              goesOn == isQuotaError(m) /\ call.i + 1 < call.totalKeys
          IN  probe' = [probe EXCEPT
                !.keyStatus = IF isQuotaError(m)
                                THEN markKeyAsExhausted(probe.keyStatus, call.key, probe.now)
                                ELSE probe.keyStatus,
                !.calls[1] = IF goesOn
                               THEN [call EXCEPT !.pc = "get", !.i = call.i + 1,
                                                 !.key = 0, !.attempt = "quota"]
                               ELSE Ended(IF isQuotaError(m) THEN "quota" ELSE "other",
                                          "thrown"),
                !.allQuota = probe.allQuota /\ isQuotaError(m),
                !.thrown = IF goesOn THEN probe.thrown ELSE handleError(m)]
       /\ UNCHANGED progVars

SpecThrown == InitThrown /\ [][NextThrown]_vars

\* ============================================================== properties
\* a step in which stopDrawing commits a stroke
CommitStep == isDrawing /\ ~isDrawing' /\ Len(currentPath) > 0 /\ Mounted'

RECURSIVE IdsIn(_)
IdsIn(h) ==
  IF h = <<>> THEN {}
  ELSE {Head(h)[i].id : i \in 1..Len(Head(h))} \union IdsIn(Tail(h))

\* C1: Region ids are never reused: a Region created by a stroke gets an id
\* greater than every id that any snapshot of the history held before the
\* stroke, also when those Regions were undone in the meantime.
C1_IdsNeverReused ==
  [][(CommitStep /\ Len(regions') > Len(regions))
       => \A k \in IdsIn(history) : regions'[Len(regions')].id > k]_vars

\* C3: In every reachable state the history is non-empty, the index points
\* into it, and its first snapshot is the empty RegionSet.
C3_HistoryWellFormed ==
  /\ Len(history) >= 1
  /\ 0 <= historyIndex
  /\ historyIndex < Len(history)
  /\ history[1] = <<>>

\* strokes were committed, undo, redo and clear requests were performed, and
\* the history was grown again afterwards
C3_Witness ==
  /\ Mounted /\ Settled
  /\ undoTrigger > 0 /\ seenUndo = undoTrigger
  /\ redoTrigger > 0 /\ seenRedo = redoTrigger
  /\ clearTrigger > 0 /\ seenClear = clearTrigger
  /\ Len(history) = MaxHistory
  /\ historyIndex = Len(history) - 1

\* C4: A commit at index i keeps the snapshots 0..i, discards every snapshot
\* after i, appends the new snapshot as entry i+1 and makes it current; the
\* canvas then has nothing to redo and something to undo.
C4_CommitTruncates ==
  [][CommitStep =>
       /\ SubSeq(history', 1, historyIndex + 1) = SubSeq(history, 1, historyIndex + 1)
       /\ Len(history') = historyIndex + 2
       /\ history'[historyIndex + 2] = MergeStroke(regions, currentPath, brushSize)
       /\ historyIndex' = historyIndex + 1
       /\ regions' = history'[Len(history')]
       /\ CanUndoNow'
       /\ ~CanRedoNow']_vars

\* a stroke is about to be committed while a snapshot after the index exists
C4_Witness ==
  /\ Mounted /\ Settled
  /\ isDrawing /\ Len(currentPath) > 0
  /\ historyIndex < Len(history) - 1
  /\ historyIndex + 2 <= MaxHistory

\* the step in which the canvas performs a clear request
ClearStep == Mounted /\ Mounted' /\ seenClear' # seenClear

\* C5: After a clear request is performed canUndo is false, canRedo is false
\* and the list of region ids is empty, whatever the history was before.
C5_ClearResets ==
  [][ClearStep =>
       /\ ~CanUndoNow'
       /\ ~CanRedoNow'
       /\ RegionIds(regions') = <<>>
       /\ history' = <<<<>>>>]_vars

\* a clear request was performed on a history that had been undone and redone
C5_Witness ==
  /\ Mounted /\ Settled
  /\ clearTrigger > 0 /\ seenClear = clearTrigger
  /\ undoTrigger > 0 /\ redoTrigger > 0
  /\ Len(history) = 1
  /\ ~canUndo /\ ~canRedo /\ regionPrompts = <<>>

C2_UndoRedoRoundTrip ==
  (probe.kind = "roundtrip" /\ Settled /\ probe.k = probe.n) =>
    /\ probe.phase = "undo" => regions = <<>>
    /\ probe.phase = "redo" => regions = probe.final

\* two strokes that made two Regions were undone and redone
C2_Witness ==
  /\ probe.kind = "roundtrip" /\ Settled
  /\ probe.phase = "redo" /\ probe.n = 2 /\ probe.k = 2
  /\ Len(probe.final) = 2
  /\ regions = probe.final

\* the box expanded by the threshold (in tenths) on all sides, scaled by 10
Expanded10(b, threshold10) ==
  [minX |-> 10 * b.minX - threshold10, minY |-> 10 * b.minY - threshold10,
   maxX |-> 10 * b.maxX + threshold10, maxY |-> 10 * b.maxY + threshold10]

Intersect(b1, b2) ==
  /\ b1.minX <= b2.maxX /\ b1.maxX >= b2.minX
  /\ b1.minY <= b2.maxY /\ b1.maxY >= b2.minY

\* both paths are in one Region, in both orders of committing
SameRegionBothOrders ==
  /\ Len(probe.ab) = 1 /\ probe.ab[1].paths = <<probe.a, probe.b>>
  /\ Len(probe.ba) = 1 /\ probe.ba[1].paths = <<probe.b, probe.a>>

\* C6 as stated: two strokes whose boxes, each expanded by 2.5 * brush,
\* intersect end in the same Region in either order.
C6_EachExpanded ==
  (/\ probe.kind = "merge" /\ probe.step = 2
   /\ Intersect(Expanded10(getPathBbox(probe.a), MergeThreshold10(probe.brush)),
                Expanded10(getPathBbox(probe.b), MergeThreshold10(probe.brush))))
    => SameRegionBothOrders

\* C6: two strokes such that the box of one, expanded by 2.5 * brush on all
\* sides, intersects the unexpanded box of the other end in the same Region
\* after both are committed on an empty RegionSet, in either order.
C6_OneExpanded ==
  (/\ probe.kind = "merge" /\ probe.step = 2
   /\ \/ Intersect(Expanded10(getPathBbox(probe.a), MergeThreshold10(probe.brush)),
                   Expanded10(getPathBbox(probe.b), 0))
      \/ Intersect(Expanded10(getPathBbox(probe.b), MergeThreshold10(probe.brush)),
                   Expanded10(getPathBbox(probe.a), 0)))
    => SameRegionBothOrders

\* two strokes with disjoint boxes, a gap of exactly 2.5 * brush between them,
\* were merged in both orders
C6_Witness ==
  /\ probe.kind = "merge" /\ probe.step = 2
  /\ probe.brush = 48
  /\ getPathBbox(probe.b).minX - getPathBbox(probe.a).maxX = GridStep
  /\ SameRegionBothOrders

C8_HandleRegionsChange ==
  (probe.kind = "prompts" /\ probe.done) =>
    /\ Len(probe.out) = Len(probe.ids)
    /\ \A i \in 1..Len(probe.ids) :
         /\ probe.out[i].id = probe.ids[i]
         /\ \A j \in 1..Len(probe.prev) :
              probe.prev[j].id = probe.ids[i] => probe.out[i].prompt = probe.prev[j].prompt
         /\ (\A j \in 1..Len(probe.prev) : probe.prev[j].id # probe.ids[i])
              => probe.out[i].prompt = ""

\* a call that kept a text, added a new id and dropped an old id
C8_Witness ==
  /\ probe.kind = "prompts" /\ probe.done
  /\ probe.ids = <<2, 3>>
  /\ probe.prev = <<[id |-> 1, prompt |-> "a"], [id |-> 2, prompt |-> "a"]>>
  /\ probe.out = <<[id |-> 2, prompt |-> "a"], [id |-> 3, prompt |-> ""]>>

\* no region prompt has non-blank text
NoNonBlankPrompt ==
  \A i \in 1..Len(regionPrompts) : regionPrompts[i].prompt \in {"", " "}

\* C9: while masking is enabled and the RegionSet is empty or no region
\* prompt has non-blank text, no step issues a backend edit request, and
\* handleSubmitEdit sets an error and leaves all other state unchanged.
C9_SubmitRefused ==
  [][(Mounted /\ isMasking /\ (Len(regions) = 0 \/ NoNonBlankPrompt)) =>
       /\ ~(inflight = Null /\ inflight' # Null)
       /\ ~(~isLoading /\ isLoading')
       /\ handleSubmitEdit =>
            /\ error' \in {"noRegionPrompt", "noMask"}
            /\ UNCHANGED <<canvasVars, imageVars, maskVars, triggerVars>>
            /\ UNCHANGED <<prompt, isLoading, inflight>>]_vars

\* a submission was refused while a Region existed whose prompt was blank
C9_Witness ==
  /\ Mounted /\ isMasking
  /\ error = "noRegionPrompt"
  /\ inflight = Null /\ ~isLoading
  /\ Len(regions) > 0
  /\ \E i \in 1..Len(regionPrompts) : regionPrompts[i].prompt = " "

\* a pointer or touch event on the capture surface: down, move, up / leave / end
PointerEvent ==
  \/ \E kind \in {"mouse0", "mouse2", "touch"}, point \in Points : StartDrawing(kind, point)
  \/ \E point \in Points : Draw(point)
  \/ StopDrawing

\* C11: While masking mode is disabled no pointer or touch event changes the
\* history, the history index or the in-progress path, also not the release
\* of a stroke that was started while masking was enabled.
C11_CaptureInertWhenDisabled ==
  [][(~isMasking /\ PointerEvent) =>
       UNCHANGED <<history, historyIndex, currentPath>>]_vars

\* C12: Enabling or disabling masking mode leaves every snapshot of the
\* canvas's history and the history index unchanged.
C12_ToggleKeepsHistory ==
  [][(Mounted /\ Mounted' /\ isMasking' # isMasking) =>
       UNCHANGED <<history, historyIndex>>]_vars

\* masking was switched off on a history of three snapshots with the index
\* in the middle (an undo needs masking to be on)
C12_Witness ==
  /\ Mounted /\ Settled
  /\ ~isMasking
  /\ Len(history) = 3
  /\ historyIndex = 1

\* C13: A click with no movement (pointer-down immediately followed by
\* pointer-up, a path of at most one point) creates no region and commits no
\* snapshot: the history and the index are unchanged and no error is set.
C13_ClickCommitsNothing ==
  [][(isDrawing /\ Len(currentPath) <= 1 /\ StopDrawing) =>
       UNCHANGED <<history, historyIndex, error>>]_vars

\* the path is the last path of some Region of the RegionSet
HoldsPath(rs, path) ==
  \E i \in 1..Len(rs) : rs[i].paths[Len(rs[i].paths)] = path

\* C14: Whenever drawing is in progress, a pointer-up, a touch-end or the
\* pointer leaving the surface returns the capture machine to Idle, empties
\* the in-progress path, and commits exactly one new snapshot that contains
\* the captured path if the path has at least one point.
C14_StopReturnsToIdle ==
  [][(isDrawing /\ StopDrawing) =>
       /\ ~isDrawing'
       /\ currentPath' = <<>>
       /\ IF Len(currentPath) >= 1
          THEN /\ Len(history') = historyIndex + 2
               /\ historyIndex' = historyIndex + 1
               /\ SubSeq(history', 1, historyIndex + 1) = SubSeq(history, 1, historyIndex + 1)
               /\ HoldsPath(regions', currentPath)
          ELSE UNCHANGED <<history, historyIndex>>]_vars

\* a stroke of two points was released, merged into the Region of an earlier
\* stroke and committed as the third snapshot
C14_Witness ==
  /\ Mounted /\ ~isDrawing /\ currentPath = <<>>
  /\ historyIndex = 2
  /\ Len(regions) = 1
  /\ Len(regions[1].paths) = 2
  /\ Len(regions[1].paths[2]) = 2

\* every path of every Region of rs is a path of the same Region in rs2
PathsKept(rs, rs2) ==
  \A i \in 1..Len(rs) : \E k \in 1..Len(rs2) :
    /\ rs2[k].id = rs[i].id
    /\ Len(rs2[k].paths) >= Len(rs[i].paths)
    /\ \A j \in 1..Len(rs[i].paths) : rs2[k].paths[j] = rs[i].paths[j]

RECURSIVE PathCount(_)
PathCount(rs) == IF rs = <<>> THEN 0 ELSE Len(Head(rs).paths) + PathCount(Tail(rs))

ReportStep == NotifyEffect \/ \E load \in pendingLoads : ImageOnload(load)

\* C17: Whenever the current RegionSet is empty, the canvas reports both the
\* composite preview and the mask export as absent (null), never as an image.
C17_EmptyReportsAbsent ==
  [][(Mounted /\ Len(regions) = 0 /\ ReportStep) =>
       (compositeImage' = Null /\ maskImage' = Null)]_vars

\* C18: The mask exported for a RegionSet with the regions 1 and 2 has no
\* white pixel outside the union of the stroked and filled paths of the two
\* regions: it is black everywhere outside the regions.
C18_MaskWhiteOnlyInRegions ==
  (probe.kind = "mask" /\ probe.step = 2 /\ RegionIds(probe.rs) = <<1, 2>>)
    => probe.mask \subseteq drawRegionsOnContext(probe.rs, probe.brush)

\* what getNextKey returned in a step, judged by the status of the keys
GetNextKeyByStatus ==
  LET stored == KeySet(probe.keys)
      r == probe'.result
  IN  /\ r.threw <=> \A k \in stored : OnCooldown(probe.keyStatus, k, probe.now)
      /\ ~r.threw => /\ r.key \in stored
                     /\ ~OnCooldown(probe.keyStatus, r.key, probe.now)
                     /\ probe'.keyStatus[r.key] = Null

\* C19: getNextKey never returns a key that is on cooldown: a key marked by
\* markKeyAsExhausted is not returned until its exhaustedUntil time has
\* passed, after which it is returned again and its status is cleared; with
\* no stored key, or with every stored key on cooldown, getNextKey throws.
C19_MarkedKeyNotReturned ==
  [][GetNextKeyCall =>
       /\ GetNextKeyByStatus
       /\ ~probe'.result.threw =>
            \/ probe.marked[probe'.result.key] = Null
            \/ probe.marked[probe'.result.key][1] < probe.now]_vars

\* C19 as the code has it: the cooldown of a key is its entry in keyStatus,
\* which deleteKey removes, so a marked key that was deleted and added again
\* is returned before its exhaustedUntil time has passed.
C19_KeyOnCooldownNotReturned ==
  [][GetNextKeyCall => GetNextKeyByStatus]_vars

\* getNextKey has returned a key whose cooldown had passed and cleared it
C19_Witness ==
  /\ probe.kind = "keys"
  /\ ~probe.result.threw /\ probe.result.cleared
  /\ probe.keyStatus[probe.result.key] = Null

NoRepeat(seq) == \A i, j \in 1..Len(seq) : i # j => seq[i] # seq[j]

\* the attempts of a call so far
AttemptsBounded(call) ==
  /\ Len(call.tried) <= call.totalKeys
  /\ call.pc = "ended" => call.outcome \in {"result", "thrown"}

\* how a call goes on when its apiCall settles
SettleStep(c) ==
  LET call == probe.calls[c]
      next == probe'.calls[c]
  IN  /\ AttemptRateLimited(c) =>
           /\ probe'.keyStatus[call.key] = Some(probe.now + EXHAUSTION_PERIOD_MS)
           /\ IF Len(call.tried) < call.totalKeys
                THEN next.pc = "get" /\ next.tried = call.tried
                ELSE next.pc = "ended" /\ next.outcome = "thrown"
      /\ AttemptSucceeds(c) => next.pc = "ended" /\ next.outcome = "result"
      /\ AttemptFails(c) => next.pc = "ended" /\ next.outcome = "thrown"

CallEnds(c) == InFlight(probe.calls[c]) ~> (probe.calls[c].pc = "ended")

CloseRegions ==
  {i \in 1..Len(probe.prev) :
     areBboxesClose(probe.prev[i].bbox, getPathBbox(probe.path),
                    MergeThreshold10(probe.brush))}

\* C21: Committing a stroke changes at most one region: the path is appended
\* to the first region, in stored order, whose box is close to the stroke's
\* box (threshold 2.5 times the brush size) and to no other region even if
\* several are close; if none is close, one new region with that single path
\* is appended at the end; every other region, and the order, is unchanged.
C21_OneMergeTarget ==
  (probe.kind = "commit" /\ probe.n > 0) =>
    IF CloseRegions # {}
    THEN /\ Len(probe.rs) = Len(probe.prev)
         /\ \A i \in 1..Len(probe.prev) :
              IF i \in CloseRegions /\ \A j \in CloseRegions : i <= j
              THEN /\ probe.rs[i].id = probe.prev[i].id
                   /\ probe.rs[i].paths = Append(probe.prev[i].paths, probe.path)
              ELSE probe.rs[i] = probe.prev[i]
    ELSE /\ Len(probe.rs) = Len(probe.prev) + 1
         /\ probe.rs[Len(probe.rs)].paths = <<probe.path>>
         /\ \A i \in 1..Len(probe.prev) : probe.rs[i] = probe.prev[i]

\* a stroke was committed that was close to two regions
C21_Witness ==
  /\ probe.kind = "commit" /\ probe.n > 0
  /\ Cardinality(CloseRegions) >= 2
  /\ Len(probe.rs[1].paths) > Len(probe.prev[1].paths)

\* C22: In every snapshot the region ids are positive integers that are
\* pairwise distinct, and the id of a newly created region is one more than
\* the largest id of the RegionSet it was added to (1 when that set is empty).
C22_IdsDistinctMaxPlusOne ==
  (probe.kind = "commit") =>
    /\ \A i \in 1..Len(probe.rs) : probe.rs[i].id \in Nat \ {0}
    /\ \A i, j \in 1..Len(probe.rs) : i # j => probe.rs[i].id # probe.rs[j].id
    /\ Len(probe.rs) > Len(probe.prev) =>
         LET id == probe.rs[Len(probe.rs)].id
         IN  /\ \A i \in 1..Len(probe.prev) : probe.prev[i].id <= id - 1
             /\ IF Len(probe.prev) = 0 THEN id = 1
                ELSE \E i \in 1..Len(probe.prev) : probe.prev[i].id = id - 1

\* a third region was created in a set of two
C22_Witness ==
  /\ probe.kind = "commit"
  /\ Len(probe.prev) = 2 /\ Len(probe.rs) = 3

\* the points of the paths of a region
RegionPoints(region) ==
  UNION {{region.paths[j][k] : k \in 1..Len(region.paths[j])} :
           j \in 1..Len(region.paths)}

\* C23: In every snapshot every region has at least one path and its bbox is
\* the component-wise min/max union of the boxes of all its paths, after any
\* sequence of merges.
C23_BboxIsUnionOfPaths ==
  (probe.kind = "commit") =>
    \A i \in 1..Len(probe.rs) :
      LET region == probe.rs[i]
          pts == RegionPoints(region)
      IN  /\ Len(region.paths) >= 1
          /\ \A j \in 1..Len(region.paths) : Len(region.paths[j]) >= 1
          /\ \A p \in pts : /\ region.bbox.minX <= p.x /\ p.x <= region.bbox.maxX
                            /\ region.bbox.minY <= p.y /\ p.y <= region.bbox.maxY
          /\ \E p \in pts : p.x = region.bbox.minX
          /\ \E p \in pts : p.x = region.bbox.maxX
          /\ \E p \in pts : p.y = region.bbox.minY
          /\ \E p \in pts : p.y = region.bbox.maxY

\* a region has grown by two merges beyond the box of its first path
C23_Witness ==
  /\ probe.kind = "commit"
  /\ \E i \in 1..Len(probe.rs) :
       /\ Len(probe.rs[i].paths) = 3
       /\ probe.rs[i].bbox # getPathBbox(probe.rs[i].paths[1])
       /\ probe.rs[i].bbox # mergeBboxes(getPathBbox(probe.rs[i].paths[1]),
                                         getPathBbox(probe.rs[i].paths[2]))

\* C24: Undo and redo change only the history index, by exactly one step, and
\* never the stored snapshots; undo at index 0 and redo at the last index
\* change nothing and raise no error.
C24_UndoRedoMoveIndexOnly ==
  [][/\ UndoEffect =>
          /\ historyIndex' = IF historyIndex = 0 THEN 0 ELSE historyIndex - 1
          /\ UNCHANGED <<history, isDrawing, currentPath, imageRef, error>>
          /\ UNCHANGED <<imageVars, maskVars>>
     /\ RedoEffect =>
          /\ historyIndex' = IF historyIndex = Len(history) - 1
                             THEN historyIndex ELSE historyIndex + 1
          /\ UNCHANGED <<history, isDrawing, currentPath, imageRef, error>>
          /\ UNCHANGED <<imageVars, maskVars>>]_vars

\* one stroke, one undo and one redo, with the first snapshot current: the
\* redo was requested at the last index and the undo moved the index by one
C24_Witness ==
  /\ Mounted /\ Settled
  /\ undoTrigger = 1 /\ seenUndo = 1
  /\ redoTrigger = 1 /\ seenRedo = 1
  /\ clearTrigger = 0
  /\ Len(history) = 2 /\ historyIndex = 0
  /\ error = NoError

\* C25: Clear discards the prior history entirely: after a clear, any
\* sequence of undo and redo requests leaves the current RegionSet empty until
\* a new stroke is committed; no snapshot from before the clear can become
\* current again.
C25_ClearIsFinal ==
  (probe.kind = "afterclear" /\ probe.phase = "cleared" /\ Mounted
     /\ seenClear = clearTrigger) =>
    /\ regions = <<>>
    /\ \A i \in 1..Len(history) : history[i] = <<>>

\* strokes were committed and cleared, and undo and redo requests were
\* performed after the clear
C25_Witness ==
  /\ probe.kind = "afterclear" /\ probe.phase = "cleared"
  /\ Mounted /\ Settled
  /\ seenClear = 1
  /\ probe.undos = MaxTrigger /\ probe.redos = MaxTrigger

\* the region-prompt entries of ids that are not in the current RegionSet are
\* gone once the notifications are delivered
PromptIdsFollowRegions ==
  (Mounted /\ Settled) =>
    [i \in 1..Len(regionPrompts) |-> regionPrompts[i].id] = RegionIds(regions)

\* C26: The text entered for region id r is kept for as long as r stays in the
\* current RegionSet (through further strokes, merges into r, brush-size
\* changes and masking toggles), and the entry for r is removed as soon as r
\* is no longer in the current RegionSet (undo past its creation, clear).
\* Checked on every step on which the active image stays and that is not an
\* edit of the text of r itself.
C26_TextKeptWhileRegionStays ==
  /\ []PromptIdsFollowRegions
  /\ [][\A i \in 1..Len(regionPrompts) :
          LET entry == regionPrompts[i]
          IN  (/\ Mounted /\ Mounted'
               /\ entry.prompt # ""
               /\ activeSetId' = activeSetId /\ activeVersionId' = activeVersionId
               /\ \E k \in 1..Len(regions) : regions[k].id = entry.id
               /\ \E k \in 1..Len(regions') : regions'[k].id = entry.id
               /\ ~(\E text \in Texts : RegionPromptInput(entry.id, text)))
              => \E j \in 1..Len(regionPrompts') : regionPrompts'[j] = entry]_vars

LoadsDone ==
  Mounted /\ pendingLoads = {} /\ ~TriggerPending /\ ~LoadDue /\ ~NotifyDue

C29_LatestSourceWins ==
  LoadsDone =>
    /\ imageRef = activeImage
    /\ IF Len(regions) = 0
       THEN compositeImage = Null /\ maskImage = Null
       ELSE /\ compositeImage = Some(Composite(activeImage, regions, brushSize))
            /\ maskImage = Some(Mask(activeImage, regions, brushSize))

NoneOnCooldown ==
  \A k \in KeySet(probe.keys) : ~OnCooldown(probe.keyStatus, k, probe.now)

\* C31: With k >= 1 stored keys none of which is on cooldown, k consecutive
\* getNextKey calls return every stored key exactly once, in stored order
\* starting at the persisted rotation index, and leave the persisted index
\* equal to its value before the k calls.
C31_FullRotation ==
  (probe.kind = "rotation" /\ probe.phase = "run" /\ NoneOnCooldown) =>
    /\ \A i \in 1..Len(probe.run) :
         probe.run[i] = probe.keys[((probe.start + i - 1) % Len(probe.keys)) + 1]
    /\ probe.index = (probe.start + Len(probe.run)) % Len(probe.keys)
    /\ Len(probe.run) = Len(probe.keys) =>
         /\ probe.index = probe.start
         /\ NoRepeat(probe.run)
         /\ KeySet(probe.run) = KeySet(probe.keys)

\* three keys were returned by three calls in a row that started in the
\* middle of the list
C31_Witness ==
  /\ probe.kind = "rotation" /\ probe.phase = "run"
  /\ Len(probe.keys) = MaxKeys /\ Len(probe.run) = MaxKeys
  /\ probe.start = 1
  /\ probe.run[1] = probe.keys[2]

\* C33: After any sequence of addKey, deleteKey and getNextKey calls,
\* whenever at least one key is stored the persisted rotation index is a
\* valid position in the key list (0 <= index < number of keys).
C33_IndexInRange ==
  (probe.kind = "keys" /\ Len(probe.keys) > 0) =>
    (0 <= probe.index /\ probe.index < Len(probe.keys))

\* after a delete, getNextKey returned the last key of the list and the index
\* wrapped to 0
C33_Witness ==
  /\ probe.kind = "keys"
  /\ probe.deletes > 0
  /\ Len(probe.keys) = MaxKeys - 1
  /\ probe.index = 0
  /\ ~probe.result.threw /\ probe.result.key \in KeySet(probe.keys)
  /\ probe.result.key = probe.keys[Len(probe.keys)]

\* the position of key in keys, 0 when it is not stored
KeyPosition(keys, key) ==
  IF key \in KeySet(keys) THEN CHOOSE i \in 1..Len(keys) : keys[i] = key ELSE 0

\* C32: After any sequence of addKey and deleteKey calls the stored key list
\* contains no duplicate and no blank key; addKey of a key already stored
\* leaves the list unchanged, and deleteKey removes the key together with its
\* cooldown status and leaves the other keys in their order.
C32_KeyListWellFormed ==
  /\ [](probe.kind = "keys" =>
          /\ NoRepeat(probe.keys)
          /\ BlankKey \notin KeySet(probe.keys))
  /\ [][\A k \in ApiKeys \union {BlankKey} :
          /\ (addKey(k) /\ (k = BlankKey \/ k \in KeySet(probe.keys))) =>
               probe'.keys = probe.keys
          /\ (addKey(k) /\ k # BlankKey /\ k \notin KeySet(probe.keys)) =>
               probe'.keys = Append(probe.keys, k)
          /\ (k # BlankKey /\ deleteKey(k)) =>
               /\ KeySet(probe'.keys) = KeySet(probe.keys) \ {k}
               /\ probe'.keyStatus[k] = Null
               /\ \A a, b \in KeySet(probe'.keys) :
                    KeyPosition(probe'.keys, a) < KeyPosition(probe'.keys, b)
                      <=> KeyPosition(probe.keys, a) < KeyPosition(probe.keys, b)
               /\ \A a \in KeySet(probe'.keys) :
                    probe'.keyStatus[a] = probe.keyStatus[a]]_vars

\* a key that was marked exhausted has been deleted with its status, and the
\* two other keys are still stored
C32_Witness ==
  /\ probe.kind = "keys"
  /\ probe.deletes > 0
  /\ Len(probe.keys) = MaxKeys - 1
  /\ \E k \in ApiKeys :
       /\ k \notin KeySet(probe.keys)
       /\ probe.marked[k] # Null
       /\ probe.keyStatus[k] = Null

\* C34: When every attempt of a withErrorHandling call fails with an error
\* that it classifies as a rate limit (message containing 'quota', '429' or
\* 'RESOURCE_EXHAUSTED'), so that all keys were tried and marked exhausted,
\* the error finally thrown to the caller is the 'All available API keys
\* have exceeded their quota' message.
C34_AllKeysExhaustedMessage ==
  (/\ probe.kind = "thrown"
   /\ probe.calls[1].pc = "ended"
   /\ probe.calls[1].attempt = "quota"
   /\ probe.allQuota
   /\ probe.thrown # "none") =>
    probe.thrown = "All available API keys have exceeded their quota"

\* the versions of all image sets
AllVersions(sets) ==
  UNION {{sets[i].versions[j] : j \in 1..Len(sets[i].versions)} : i \in 1..Len(sets)}

C36_ActiveVersionInActiveSet ==
  \/ activeSetId = 0 /\ activeVersionId = 0
  \/ /\ activeSetId # 0 /\ activeVersionId # 0
     /\ ActiveImageOf(imageSets, activeSetId, activeVersionId) = activeVersionId

\* C37: When an edit or next-scene request completes, the resulting
\* imageSets equals the imageSets at completion time plus the one new version
\* (or new set): versions and sets that the user deleted or added while the
\* request was in flight are neither resurrected nor dropped.
C37_CompletionKeepsLaterChanges ==
  [][/\ EditSucceeds =>
          imageSets' = AppendVersion(imageSets, inflight[1].activeSetId, activeVersionId')
     /\ NextSceneSucceeds =>
          imageSets' = Append(imageSets, [id |-> activeSetId', versions |-> <<activeVersionId'>>])
     /\ (EditSucceeds \/ NextSceneSucceeds) =>
          AllVersions(imageSets') \subseteq AllVersions(imageSets) \union {activeVersionId'}]_vars

\* C38: At most one generate, edit or next-scene backend request is in flight
\* at any time: isLoading is true exactly while such a request is in flight,
\* and no submit path (edit form, generator form, next-scene form) starts a
\* request while isLoading is true.
C38_OneRequestInFlight ==
  /\ [](isLoading <=> inflight # Null)
  /\ [](Len(inflight) <= 1)
  /\ [][/\ (inflight' # Null /\ inflight' # inflight) => (~isLoading /\ inflight = Null)
        /\ (handleSubmitEdit \/ handleGenerateNextScene \/ handleImageGenerate) =>
             ~isLoading]_vars

\* a next-scene request is in flight after an edit request has ended
C38_Witness ==
  /\ probe.kind = "sets"
  /\ isLoading /\ inflight # Null
  /\ inflight[1].kind = "scene"
  /\ Len(imageSets) = 1 /\ Len(imageSets[1].versions) = 2

\* C39: After masking is turned off by handleToggleMasking,
\* handleSelectVersion, handleNewThumbnail or a successful handleSubmitEdit,
\* the App's region prompts stay empty and its composite and mask images stay
\* null until masking is enabled again and a new stroke is committed; strokes
\* drawn before the reset are not reported again by the canvas.  Masking is
\* off at the start and is only switched off by these handlers, so the claim
\* is checked in the states with masking off whose effects are finished.
C39_ResetStaysWhileMaskingOff ==
  (Mounted /\ Settled /\ ~isMasking) =>
    /\ regionPrompts = <<>>
    /\ compositeImage = Null
    /\ maskImage = Null


\* ------------------------------------------- renders and notifications
\* the user events of the render scenario
MaxUserActions == 6

\* probe.render: a state update is waiting for its render; probe.effect: the
\* last render handed the canvas a new onHistoryChange, a dependency of the
\* notification effect
InitRender ==
  ProgInit /\ probe = [kind |-> "render", render |-> FALSE, effect |-> FALSE, actions |-> 0]

\* a render of App: the MaskingCanvas element gets the inline arrow
\* onHistoryChange={({ canUndo, canRedo }) => ...}, a new function each time
RenderStep ==
  /\ probe.render
  /\ probe' = [probe EXCEPT !.render = FALSE, !.effect = Mounted]
  /\ UNCHANGED progVars

\* the effects after a render. setCompositeImage, setMaskImage, setCanUndo and
\* setCanRedo with an equal value schedule nothing; handleRegionsChange returns
\* a new array from regions.map on every call, so setRegionPrompts always
\* schedules a render
EffectStep ==
  /\ Mounted
  /\ ~probe.render
  /\ probe.effect \/ LoadDue \/ NotifyDue
  /\ IF LoadDue \/ NotifyDue THEN NotifyEffect ELSE UNCHANGED progVars
  /\ probe' = [probe EXCEPT !.render = TRUE, !.effect = FALSE]

NextRender ==
  \/ RenderStep
  \/ EffectStep
  \/ /\ \E load \in pendingLoads : ImageOnload(load)
     /\ probe' = [probe EXCEPT !.render = @ \/ (maskVars' # maskVars)]
  \/ /\ ~probe.effect /\ probe.actions < MaxUserActions
     /\ handleImageUpload
     /\ probe' = [probe EXCEPT !.actions = @ + 1, !.render = TRUE]
  \/ /\ ~probe.effect /\ probe.actions < MaxUserActions
     /\ handleToggleMasking
     /\ probe' = [probe EXCEPT !.actions = @ + 1, !.render = TRUE]
  \/ /\ ~probe.effect /\ probe.actions < MaxUserActions
     /\ \E size \in BrushSizes : setBrushSize(size)
     /\ probe' = [probe EXCEPT !.actions = @ + 1, !.render = TRUE]
  \/ /\ ~probe.effect /\ probe.actions < MaxUserActions
     /\ \E point \in Points : StartDrawing("mouse0", point)
     /\ probe' = [probe EXCEPT !.actions = @ + 1]
  \/ /\ ~probe.effect /\ probe.actions < MaxUserActions
     /\ \E point \in Points : Draw(point)
     /\ probe' = [probe EXCEPT !.actions = @ + 1]
  \/ /\ ~probe.effect /\ probe.actions < MaxUserActions
     /\ StopDrawing
     /\ probe' = [probe EXCEPT !.actions = @ + 1,
                               !.render = @ \/ (<<history, historyIndex>>' # <<history, historyIndex>>)]

\* React runs a scheduled render and the effects of a committed render
SpecRender ==
  InitRender /\ [][NextRender]_vars /\ WF_vars(RenderStep) /\ WF_vars(EffectStep)

\* C40: After any single user action the chain of canvas-to-App notifications
\* (onHistoryChange, onRegionsChange, onCompositeImageChange,
\* onMaskImageChange) and the re-renders they trigger terminates: whenever a
\* render or a notification effect is pending, the program reaches a state
\* with no render and no notification pending.
C40_NotificationsTerminate ==
  (probe.render \/ probe.effect) ~> (~probe.render /\ ~probe.effect)

====
